---------------------------- MODULE Spec2Model ----------------------------
(***************************************************************************)
(* A model of the alert analysis engine of src/engine.py (AlertEngine):     *)
(* noise cut, episode building, union-find situation assembly, temporal     *)
(* spreading, the correlation engine, primary cause selection and the       *)
(* emitter.  Timestamps are epoch milliseconds, as in the source.           *)
(* The state starts where AlertEngine.run has the normalized alert list     *)
(* (engine.py:1130) and follows run() step by step.                         *)
(***************************************************************************)
EXTENDS Integers, Sequences, FiniteSets, TLC

VARIABLES
    args,            \* self.args: dedup_ttl, episode_gap, min_support, max_lag
    graph,           \* self.graph: entity key -> set of neighbours
    raw_alerts,      \* self.raw_alerts: the records load_alerts returned
    normalized,      \* the list normalize_alerts returned (never changed)
    alerts,          \* self.alerts
    dedup_cache,     \* self.dedup_cache
    echo_tracker,    \* self.echo_tracker
    flap_tracker,    \* self.flap_tracker
    episodes,        \* self.episodes
    raw_situations,  \* run()'s local raw_situations
    situations,      \* self.situations
    correlations,    \* self.correlations
    si,              \* index of the situation the loop of run() is at
    output,          \* the records written by _write_output, in order
    pc               \* position in run()

vars == <<args, graph, raw_alerts, normalized, alerts, dedup_cache, echo_tracker,
          flap_tracker, episodes, raw_situations, situations, correlations,
          si, output, pc>>

----------------------------------------------------------------------------
(* Program constants, engine.py:32-38 *)
PAD_MS_START == 60000
MAX_PAD_MS == 600000
BIN_SIZE_S_DEFAULT == 1
BIN_SIZE_S_FALLBACK == 5
MIN_SITUATION_MS == 10000
MIN_BINS == 3
JOIN_HALO_MS == 300000

----------------------------------------------------------------------------
(* Generic helpers *)

EmptyMap == [x \in {} |-> 0]

\* d.get(k, dflt) of a dict modelled as a function
Get(d, k, dflt) == IF k \in DOMAIN d THEN d[k] ELSE dflt

\* d[k] = v
Put(d, k, v) == [x \in DOMAIN d \cup {k} |-> IF x = k THEN v ELSE d[x]]

Range(s) == {s[i] : i \in 1..Len(s)}

SetMin(S) == CHOOSE x \in S : \A y \in S : x <= y
SetMax(S) == CHOOSE x \in S : \A y \in S : x >= y

\* all lists of at most n elements of U
ListsUpTo(n, U) == UNION {[1..k -> U] : k \in 0..n}

\* insert x after the elements whose ts is <= x.ts: a stable insertion
RECURSIVE InsertByTs(_, _)
InsertByTs(s, x) ==
    IF s = <<>> THEN <<x>>
    ELSE IF Head(s).ts <= x.ts THEN <<Head(s)>> \o InsertByTs(Tail(s), x)
    ELSE <<x>> \o s

\* sorted(s, key=lambda x: x['ts']): Python's sort is stable
RECURSIVE SortedByTs(_)
SortedByTs(s) ==
    IF s = <<>> THEN <<>>
    ELSE InsertByTs(SortedByTs(SubSeq(s, 1, Len(s) - 1)), s[Len(s)])

----------------------------------------------------------------------------
(* Normalized alerts: the fields of _normalize_datadog_alert's result that  *)
(* the later stages read.  "" stands for None.                              *)
Alert(ts, source, fingerprint, severity, entity_key, status, deploy_key, net_key) ==
    [ts |-> ts, source |-> source, fingerprint |-> fingerprint,
     severity |-> severity, entity_key |-> entity_key, status |-> status,
     deploy_key |-> deploy_key, net_key |-> net_key,
     resource_id |-> "r-" \o entity_key \o "-" \o fingerprint]

----------------------------------------------------------------------------
(* Normalizer: _parse_timestamp, _generate_fingerprint,                     *)
(* _normalize_datadog_alert and normalize_alerts, engine.py:97-249 and      *)
(* 1095-1114.  A raw record holds the fields the normalizer reads; "" is an *)
(* absent or empty field and tags is the mapping _extract_tags returns.     *)
(* A timestamp field is a record of its kind and value: "none" for an       *)
(* absent, None, 0 or empty value, "seconds" for a number below 10^12,      *)
(* "millis" for a number of at least 10^12, "iso" for a string that         *)
(* date_parser reads (value: the milliseconds it stands for) and "garbage"  *)
(* for any other value.  Times are offsets from one origin, in the unit of  *)
(* the kind.  The shape of a record is "datadog" when it has metadata.event *)
(* as a mapping, "broken" when metadata.event is there and is no mapping,   *)
(* so that line 157 raises, and "unknown" without metadata.event.  The      *)
(* fields event_object, aggregation_key and group_key are absent.           *)

NoTimestamp == [kind |-> "none", value |-> 0]

Seconds(n) == [kind |-> "seconds", value |-> n]

RawAlert(shape, id, timestamp, first_seen, created_at, tags, message, current_status, event_id) ==
    [shape |-> shape, id |-> id, timestamp |-> timestamp, first_seen |-> first_seen,
     created_at |-> created_at, tags |-> tags, message |-> message,
     current_status |-> current_status, event_id |-> event_id]

\* a or b or c of Python over timestamp fields (lines 161-163)
FirstTruthy(a, b, c) ==
    IF a.kind # "none" THEN a ELSE IF b.kind # "none" THEN b ELSE c

\* _parse_timestamp; now is the current time the fallback reads
parse_timestamp(ts_value, now) ==
    CASE ts_value.kind = "seconds" -> ts_value.value * 1000
      [] ts_value.kind = "millis"  -> ts_value.value
      [] ts_value.kind = "iso"     -> ts_value.value
      [] OTHER                     -> now

\* hashlib.sha256(fp_string).hexdigest() on the field tuples of the model:
\* distinct tuples have distinct digests
Sha256Hex(fp) ==
    CASE fp = <<"ta", "high", "", "", "a">>         -> "fa"
      [] fp = <<"tb", "high", "", "", "a">>         -> "fb"
      [] fp = <<"", "high", "", "", "a">>           -> "fc"
      [] fp = <<"ta", "high", "", "", "undefined">> -> "fd"
      [] fp = <<"", "high", "", "", "undefined">>   -> "fe"
      [] OTHER                                      -> "ff"

\* _generate_fingerprint
generate_fingerprint(alert) ==
    Sha256Hex(<<alert.title, alert.severity, alert.cluster, alert.ns, alert.service>>)

\* lines 184-193: the strongest entity key available
EntityKey(service, cluster, ns, pod, host) ==
    IF service # "" /\ service # "undefined" THEN "svc:" \o service
    ELSE IF ns # "" /\ pod # "" THEN "pod:" \o pod
    ELSE IF host # "" THEN "host:" \o host
    ELSE IF cluster # "" THEN "cluster:" \o cluster
    ELSE "entity:na"

\* lines 169-175
StatusOf(current_status) ==
    IF current_status \in {"ok", "resolved"} THEN "resolved" ELSE "firing"

\* lines 223 and 229-238
DeployKey(tags) ==
    IF Get(tags, "git_sha", "") # "" THEN tags["git_sha"]
    ELSE IF Get(tags, "release", "") # "" THEN tags["release"]
    ELSE Get(tags, "commit", "")

NetKey(tags) ==
    IF Get(tags, "src_ip", "") # "" /\ Get(tags, "dst_ip", "") # ""
    THEN tags["src_ip"] \o "->" \o tags["dst_ip"]
    ELSE IF Get(tags, "src_host", "") # "" /\ Get(tags, "dst_host", "") # ""
    THEN tags["src_host"] \o "->" \o tags["dst_host"]
    ELSE ""

\* lines 200-205: the event id, or the record id and the group key
ResourceId(raw_alert) ==
    IF raw_alert.event_id # "" THEN raw_alert.event_id ELSE raw_alert.id \o "|"

\* lines 196-249 for the extracted fields: the fields of the alert that the
\* later stages read
NormalizedAlert(ts, status, service, cluster, ns, pod, host, title, tags, resource_id) ==
    [ts |-> ts, source |-> "datadog",
     fingerprint |-> generate_fingerprint([title |-> title, severity |-> "high",
                                           cluster |-> cluster, ns |-> ns,
                                           service |-> service]),
     severity |-> "high",
     entity_key |-> EntityKey(service, cluster, ns, pod, host),
     status |-> status,
     deploy_key |-> DeployKey(tags), net_key |-> NetKey(tags),
     resource_id |-> resource_id]

\* _normalize_datadog_alert for a record of the shape "datadog"
normalize_datadog_alert(raw_alert, now) ==
    NormalizedAlert(
        parse_timestamp(FirstTruthy(raw_alert.timestamp, raw_alert.first_seen,
                                    raw_alert.created_at), now),
        StatusOf(raw_alert.current_status),
        Get(raw_alert.tags, "service", "undefined"),
        Get(raw_alert.tags, "kube_cluster_name", Get(raw_alert.tags, "cluster", "")),
        Get(raw_alert.tags, "kube_namespace", Get(raw_alert.tags, "namespace", "")),
        Get(raw_alert.tags, "pod_name", Get(raw_alert.tags, "pod", "")),
        Get(raw_alert.tags, "host", ""),
        raw_alert.message, raw_alert.tags, ResourceId(raw_alert))

\* normalize_alerts: a record of the shape "datadog" is normalized, one of
\* unknown shape and one that raises are skipped; nows[k] is the current
\* time while record k is normalized
RECURSIVE NormalizeFrom(_, _, _)
NormalizeFrom(raw, nows, k) ==
    IF k > Len(raw) THEN <<>>
    ELSE (IF raw[k].shape = "datadog"
          THEN <<normalize_datadog_alert(raw[k], nows[k])>>
          ELSE <<>>)
         \o NormalizeFrom(raw, nows, k + 1)

normalize_alerts(raw, nows) == NormalizeFrom(raw, nows, 1)

\* the times the clock may show during normalize_alerts: it never goes back
NowValues == {900000, 900001}

Clocks(n) == {c \in [1..n -> NowValues] : \A i \in 1..(n - 1) : c[i] <= c[i + 1]}

\* run(), lines 1120-1133: load, normalize, and return without any output
\* when nothing was loaded or nothing is left
NormalizeAlerts ==
    /\ pc = "load"
    /\ \E nows \in Clocks(Len(raw_alerts)) :
          /\ alerts' = IF raw_alerts = <<>> THEN alerts
                       ELSE normalize_alerts(raw_alerts, nows)
          /\ normalized' = alerts'
    /\ pc' = IF raw_alerts = <<>> \/ alerts' = <<>> THEN "done" ELSE "noise"
    /\ UNCHANGED <<args, graph, raw_alerts, dedup_cache, echo_tracker, flap_tracker,
                   episodes, raw_situations, situations, correlations, si, output>>

----------------------------------------------------------------------------
(* NoiseFilter: _apply_noise_cut, engine.py:251-296 *)

ECHO_WINDOW_MS == 10000
FLAP_WINDOW_MS == 600000

\* the unit slip: the TTL in seconds compared with a difference in ms
IsDuplicateSeconds(cache, key, ts, dedup_ttl) ==
    /\ key \in DOMAIN cache
    /\ ts - cache[key] < dedup_ttl

\* lines 259-260: the dedup TTL check
IsDuplicate(cache, key, ts, dedup_ttl) ==
    /\ key \in DOMAIN cache
    /\ ts - cache[key] < dedup_ttl * 1000

\* lines 270-273 with the window taken in seconds
IsEchoSeconds(entries, alert) ==
    \E i \in 1..Len(entries) :
        /\ alert.ts - entries[i][1] <= ECHO_WINDOW_MS \div 1000
        /\ entries[i][2] # alert.source

\* lines 270-273: a recent entry of another source
IsEcho(entries, alert) ==
    \E i \in 1..Len(entries) :
        /\ alert.ts - entries[i][1] <= ECHO_WINDOW_MS
        /\ entries[i][2] # alert.source

\* the slip of forgetting the cache entry of a key when a duplicate of it is
\* dropped
NoiseStepForgetful(st, alert, dedup_ttl) ==
    LET dedup_key == <<alert.fingerprint, alert.severity, alert.entity_key>>
        echo_key  == <<alert.fingerprint, alert.entity_key>>
    IN  IF IsDuplicate(st.dedup_cache, dedup_key, alert.ts, dedup_ttl)
        THEN [st EXCEPT !.dedup_cache = [k \in DOMAIN st.dedup_cache \ {dedup_key} |->
                                            st.dedup_cache[k]]]
        ELSE
          LET cache1 == Put(st.dedup_cache, dedup_key, alert.ts)
              prev   == Get(st.echo_tracker, echo_key, <<>>)
              fprev  == Get(st.flap_tracker, echo_key, <<>>)
          IN  IF IsEcho(prev, alert)
              THEN [st EXCEPT !.dedup_cache = cache1,
                              !.echo_tracker = Put(st.echo_tracker, echo_key, prev)]
              ELSE
                LET InEcho(e) == alert.ts - e[1] <= ECHO_WINDOW_MS
                    InFlap(e) == alert.ts - e[1] <= FLAP_WINDOW_MS
                    echo1 == SelectSeq(Append(prev, <<alert.ts, alert.source>>), InEcho)
                    flap1 == SelectSeq(Append(fprev, <<alert.ts, alert.status>>), InFlap)
                IN  [dedup_cache  |-> cache1,
                     echo_tracker |-> Put(st.echo_tracker, echo_key, echo1),
                     flap_tracker |-> Put(st.flap_tracker, echo_key, flap1),
                     filtered     |-> Append(st.filtered, alert)]

\* one iteration of the loop of lines 256-294; st holds the three trackers
\* and the list filtered_alerts
NoiseStep(st, alert, dedup_ttl) ==
    LET dedup_key == <<alert.fingerprint, alert.severity, alert.entity_key>>
        echo_key  == <<alert.fingerprint, alert.entity_key>>
    IN  IF IsDuplicate(st.dedup_cache, dedup_key, alert.ts, dedup_ttl)
        THEN st
        ELSE
          LET cache1 == Put(st.dedup_cache, dedup_key, alert.ts)
              \* a defaultdict: reading the key creates it
              prev   == Get(st.echo_tracker, echo_key, <<>>)
              fprev  == Get(st.flap_tracker, echo_key, <<>>)
          IN  IF IsEcho(prev, alert)
              THEN [st EXCEPT !.dedup_cache = cache1,
                              !.echo_tracker = Put(st.echo_tracker, echo_key, prev)]
              ELSE
                LET InEcho(e) == alert.ts - e[1] <= ECHO_WINDOW_MS
                    InFlap(e) == alert.ts - e[1] <= FLAP_WINDOW_MS
                    echo1 == SelectSeq(Append(prev, <<alert.ts, alert.source>>), InEcho)
                    flap1 == SelectSeq(Append(fprev, <<alert.ts, alert.status>>), InFlap)
                IN  [dedup_cache  |-> cache1,
                     echo_tracker |-> Put(st.echo_tracker, echo_key, echo1),
                     flap_tracker |-> Put(st.flap_tracker, echo_key, flap1),
                     filtered     |-> Append(st.filtered, alert)]

RECURSIVE NoiseLoop(_, _, _)
NoiseLoop(st, todo, dedup_ttl) ==
    IF todo = <<>> THEN st
    ELSE NoiseLoop(NoiseStep(st, Head(todo), dedup_ttl), Tail(todo), dedup_ttl)

\* _apply_noise_cut(alerts) on the trackers st
apply_noise_cut(st, als, dedup_ttl) ==
    NoiseLoop([st EXCEPT !.filtered = <<>>], SortedByTs(als), dedup_ttl)

Trackers ==
    [dedup_cache |-> dedup_cache, echo_tracker |-> echo_tracker,
     flap_tracker |-> flap_tracker, filtered |-> <<>>]

\* run(), lines 1135-1141, with the result r of _apply_noise_cut
NoiseCutDone(r) ==
    /\ alerts' = r.filtered
    /\ dedup_cache' = r.dedup_cache
    /\ echo_tracker' = r.echo_tracker
    /\ flap_tracker' = r.flap_tracker

ApplyNoiseCut ==
    /\ pc = "noise"
    /\ NoiseCutDone(apply_noise_cut(Trackers, alerts, args.dedup_ttl))
    /\ pc' = "episodes"
    /\ UNCHANGED <<args, graph, raw_alerts, normalized, episodes, raw_situations,
                   situations, correlations, si, output>>

----------------------------------------------------------------------------
(* EpisodeBuilder: _build_episodes and _create_episode, engine.py:317-383.  *)
(* An episode holds references to its alerts: here their indices in the     *)
(* alert list it was built from.                                            *)

GroupKey(a) == <<a.entity_key, a.fingerprint>>

\* the keys of the dict groups, in insertion order (lines 320-323)
RECURSIVE GroupKeys(_, _)
GroupKeys(als, seen) ==
    IF als = <<>> THEN <<>>
    ELSE IF GroupKey(Head(als)) \in seen THEN GroupKeys(Tail(als), seen)
    ELSE <<GroupKey(Head(als))>> \o GroupKeys(Tail(als), seen \cup {GroupKey(Head(als))})

\* groups[key]: the indices of the alerts of one key, in list order
RECURSIVE GroupOf(_, _, _)
GroupOf(als, key, i) ==
    IF i > Len(als) THEN <<>>
    ELSE IF GroupKey(als[i]) = key THEN <<i>> \o GroupOf(als, key, i + 1)
    ELSE GroupOf(als, key, i + 1)

RECURSIVE InsertIdxByTs(_, _, _)
InsertIdxByTs(s, i, als) ==
    IF s = <<>> THEN <<i>>
    ELSE IF als[Head(s)].ts <= als[i].ts THEN <<Head(s)>> \o InsertIdxByTs(Tail(s), i, als)
    ELSE <<i>> \o s

\* list.sort(key=lambda x: x['ts']) over references (lines 328, 351)
RECURSIVE SortIdxByTs(_, _)
SortIdxByTs(s, als) ==
    IF s = <<>> THEN <<>>
    ELSE InsertIdxByTs(SortIdxByTs(SubSeq(s, 1, Len(s) - 1), als), s[Len(s)], als)

\* the slip of closing an episode at a gap equal to episode_gap
ExceedsGapInclusive(ts, prev_ts, episode_gap) == ts - prev_ts >= episode_gap * 1000

\* line 335: the gap to the previous alert exceeds episode_gap seconds
ExceedsGap(ts, prev_ts, episode_gap) == ts - prev_ts > episode_gap * 1000

\* lines 354-383 of _create_episode, for the sorted references idxs
EpisodeOf(idxs, als) ==
    [entity_key   |-> als[idxs[1]].entity_key,
     fingerprint  |-> als[idxs[1]].fingerprint,
     start        |-> als[idxs[1]].ts,
     end          |-> als[idxs[Len(idxs)]].ts,
     count        |-> Len(idxs),
     vendors      |-> {als[idxs[k]].source : k \in 1..Len(idxs)},
     resource_ids |-> {als[idxs[k]].resource_id : k \in 1..Len(idxs)},
     deploy_keys  |-> {als[idxs[k]].deploy_key : k \in 1..Len(idxs)} \ {""},
     net_keys     |-> {als[idxs[k]].net_key : k \in 1..Len(idxs)} \ {""},
     alerts       |-> idxs]

\* _create_episode; idxs are the references to the episode's alerts
create_episode(idxs, als) == EpisodeOf(SortIdxByTs(idxs, als), als)

\* the walk without its last step: the final episode is never added
RECURSIVE WalkGroupNoFinal(_, _, _, _, _)
WalkGroupNoFinal(todo, current, done, als, episode_gap) ==
    IF todo = <<>> THEN done
    ELSE LET i == Head(todo)
         IN  IF /\ current # <<>>
                /\ ExceedsGap(als[i].ts, als[current[Len(current)]].ts, episode_gap)
             THEN WalkGroupNoFinal(Tail(todo), <<i>>,
                                   Append(done, create_episode(current, als)), als, episode_gap)
             ELSE WalkGroupNoFinal(Tail(todo), Append(current, i), done, als, episode_gap)

\* lines 331-345: the walk over one sorted group
RECURSIVE WalkGroup(_, _, _, _, _)
WalkGroup(todo, current, done, als, episode_gap) ==
    IF todo = <<>>
    THEN IF current # <<>> THEN Append(done, create_episode(current, als)) ELSE done
    ELSE LET i == Head(todo)
         IN  IF /\ current # <<>>
                /\ ExceedsGap(als[i].ts, als[current[Len(current)]].ts, episode_gap)
             THEN WalkGroup(Tail(todo), <<i>>,
                            Append(done, create_episode(current, als)), als, episode_gap)
             ELSE WalkGroup(Tail(todo), Append(current, i), done, als, episode_gap)

RECURSIVE EpisodesOfGroups(_, _, _)
EpisodesOfGroups(keys, als, episode_gap) ==
    IF keys = <<>> THEN <<>>
    ELSE WalkGroup(SortIdxByTs(GroupOf(als, Head(keys), 1), als), <<>>, <<>>, als, episode_gap)
         \o EpisodesOfGroups(Tail(keys), als, episode_gap)

build_episodes(als, episode_gap) ==
    EpisodesOfGroups(GroupKeys(als, {}), als, episode_gap)

\* run(), lines 1143-1149
BuildEpisodes ==
    /\ pc = "episodes"
    /\ episodes' = build_episodes(alerts, args.episode_gap)
    /\ pc' = "situations"
    /\ UNCHANGED <<args, graph, raw_alerts, normalized, alerts, dedup_cache, echo_tracker,
                   flap_tracker, raw_situations, situations, correlations, si, output>>

----------------------------------------------------------------------------
(* UnionFind, engine.py:41-64: parent and rank are dicts *)

NewUnionFind == [parent |-> EmptyMap, rank |-> EmptyMap]

\* find(x), with its path compression; returns the structure and the root
RECURSIVE Find(_, _)
Find(uf, x) ==
    LET uf1 == IF x \in DOMAIN uf.parent THEN uf
               ELSE [parent |-> Put(uf.parent, x, x), rank |-> Put(uf.rank, x, 0)]
    IN  IF uf1.parent[x] # x
        THEN LET r == Find(uf1, uf1.parent[x])
             IN  [uf |-> [r.uf EXCEPT !.parent = Put(r.uf.parent, x, r.root)],
                  root |-> r.root]
        ELSE [uf |-> uf1, root |-> x]

\* lines 58-64 of union: the roots px and py are known
Link(u, px, py) ==
    IF px = py THEN u
    ELSE IF u.rank[px] < u.rank[py]
    THEN [parent |-> Put(u.parent, px, py), rank |-> u.rank]
    ELSE [parent |-> Put(u.parent, py, px),
          rank   |-> IF u.rank[px] = u.rank[py]
                     THEN Put(u.rank, px, u.rank[px] + 1)
                     ELSE u.rank]

UnionRoots(fy, px) == Link(fy.uf, px, fy.root)

\* the second find of line 57, after the first one
UnionSecond(fx, y) == UnionRoots(Find(fx.uf, y), fx.root)

\* union(x, y), by rank
Union(uf, x, y) == UnionSecond(Find(uf, x), y)

----------------------------------------------------------------------------
(* SituationAssembler: _build_situations and _create_situation,             *)
(* engine.py:385-543                                                        *)

\* lines 403-404: temporal overlap with the halo
HaloOverlap(ep1, ep2) ==
    ~ (\/ ep1.end + JOIN_HALO_MS < ep2.start
       \/ ep2.end + JOIN_HALO_MS < ep1.start)

\* lines 426-431: an edge of the graph between the two entities
GraphEdge(g, entity1, entity2) ==
    /\ DOMAIN g # {}
    /\ \/ (entity1 \in DOMAIN g /\ entity2 \in Get(g, entity1, {}))
       \/ (entity2 \in DOMAIN g /\ entity1 \in Get(g, entity2, {}))

\* the bridges without the graph edge
ShouldMergeNoGraph(ep1, ep2, g) ==
    \/ ep1.entity_key = ep2.entity_key
    \/ ep1.fingerprint = ep2.fingerprint
    \/ ep1.deploy_keys \cap ep2.deploy_keys # {}
    \/ ep1.net_keys \cap ep2.net_keys # {}

\* lines 408-431: should_merge
ShouldMerge(ep1, ep2, g) ==
    \/ ep1.entity_key = ep2.entity_key
    \/ ep1.fingerprint = ep2.fingerprint
    \/ (ep1.deploy_keys # {} /\ ep2.deploy_keys # {}
          /\ ep1.deploy_keys \cap ep2.deploy_keys # {})
    \/ (ep1.net_keys # {} /\ ep2.net_keys # {}
          /\ ep1.net_keys \cap ep2.net_keys # {})
    \/ GraphEdge(g, ep1.entity_key, ep2.entity_key)

\* lines 393-394: uf.find(i) for every episode index
RECURSIVE InitFind(_, _, _)
InitFind(uf, i, n) ==
    IF i > n THEN uf ELSE InitFind(Find(uf, i).uf, i + 1, n)

\* lines 397-434: the scan of all pairs i < j, in the order of the two loops
RECURSIVE ScanPairs(_, _, _, _, _)
ScanPairs(uf, i, j, eps, g) ==
    IF i > Len(eps) THEN uf
    ELSE IF j > Len(eps) THEN ScanPairs(uf, i + 1, 1, eps, g)
    ELSE IF i >= j THEN ScanPairs(uf, i, j + 1, eps, g)
    ELSE IF HaloOverlap(eps[i], eps[j]) /\ ShouldMerge(eps[i], eps[j], g)
         THEN ScanPairs(Union(uf, i, j), i, j + 1, eps, g)
         ELSE ScanPairs(uf, i, j + 1, eps, g)

\* lines 437-440: the root of every episode, finds applied in index order
RECURSIVE Roots(_, _, _)
Roots(uf, i, n) ==
    IF i > n THEN <<>>
    ELSE LET f == Find(uf, i) IN <<f.root>> \o Roots(f.uf, i + 1, n)

\* the keys of situation_groups in insertion order
RECURSIVE DistinctInOrder(_, _)
DistinctInOrder(s, seen) ==
    IF s = <<>> THEN <<>>
    ELSE IF Head(s) \in seen THEN DistinctInOrder(Tail(s), seen)
    ELSE <<Head(s)>> \o DistinctInOrder(Tail(s), seen \cup {Head(s)})

\* situation_groups[root]: the indices of its episodes, in index order
RECURSIVE MembersOf(_, _, _)
MembersOf(roots, root, i) ==
    IF i > Len(roots) THEN <<>>
    ELSE IF roots[i] = root THEN <<i>> \o MembersOf(roots, root, i + 1)
    ELSE MembersOf(roots, root, i + 1)

\* the window taken from the first episode instead of the minimum and maximum
SituationWindowFirst(eps) == [start |-> eps[1].start, end |-> eps[1].end]

\* lines 456-457
SituationWindow(eps) ==
    [start |-> SetMin({eps[k].start : k \in 1..Len(eps)}),
     end   |-> SetMax({eps[k].end : k \in 1..Len(eps)})]

\* line 460: f"S-{start}-{end}-{len(episodes)}", kept as the tuple it prints
SituationId(start, end, n) == <<"S", start, end, n>>

\* _create_situation (lines 459-543) for the window w: the fields the later
\* stages and the emitter read.  An absent key of the dict (bins,
\* padded_window, primary_cause, score) is the empty sequence; a present one
\* is a sequence of one element.
SituationOf(eps, w) ==
        [situation_id |-> SituationId(w.start, w.end, Len(eps)),
         window       |-> w,
         episodes     |-> [k \in 1..Len(eps) |->
                              [entity_key  |-> eps[k].entity_key,
                               fingerprint |-> eps[k].fingerprint,
                               start       |-> eps[k].start,
                               end         |-> eps[k].end,
                               count       |-> eps[k].count]],
         blast_radius |-> [entities |-> Cardinality({eps[k].entity_key : k \in 1..Len(eps)})],
         raw_episodes |-> eps,
         insufficient_temporal_spread |-> FALSE,
         reason       |-> "",
         pad_ms_used  |-> PAD_MS_START,
         bin_size_s   |-> BIN_SIZE_S_DEFAULT,
         bins         |-> <<>>,
         padded_window |-> <<>>,
         primary_cause |-> <<>>,
         score        |-> <<>>]

create_situation(eps) == SituationOf(eps, SituationWindow(eps))

SituationOfMembers(eps, m) == create_situation([x \in 1..Len(m) |-> eps[m[x]]])

\* lines 443-446: one situation per group, in the order of the groups
SituationsOfGroups(eps, roots, keys) ==
    [k \in 1..Len(keys) |-> SituationOfMembers(eps, MembersOf(roots, keys[k], 1))]

SituationsOfRoots(eps, roots) == SituationsOfGroups(eps, roots, DistinctInOrder(roots, {}))

build_situations(eps, g) ==
    IF eps = <<>> THEN <<>>
    ELSE SituationsOfRoots(eps,
            Roots(ScanPairs(InitFind(NewUnionFind, 1, Len(eps)), 1, 1, eps, g),
                  1, Len(eps)))

\* run(), lines 1151-1159
BuildSituations ==
    /\ pc = "situations"
    /\ raw_situations' = build_situations(episodes, graph)
    /\ situations' = <<>>
    /\ correlations' = <<>>
    /\ si' = 1
    /\ pc' = IF raw_situations' = <<>> THEN "write" ELSE "spread"
    /\ UNCHANGED <<args, graph, raw_alerts, normalized, alerts, dedup_cache, echo_tracker,
                   flap_tracker, episodes, output>>

----------------------------------------------------------------------------
(* TemporalSpreader: _apply_temporal_spread and _create_bins,               *)
(* engine.py:545-651                                                        *)

\* int(x / y) of Python for integers x and y > 0: truncation towards zero
TruncDiv(x, y) == IF x >= 0 THEN x \div y ELSE -((-x) \div y)

\* the fingerprints of a list of alerts
FingerprintsOf(als) == {als[j].fingerprint : j \in 1..Len(als)}

\* the orders in which a set of strings may be iterated: set iteration
\* follows the strings' hashes, which differ from run to run
IterationOrders(S) == {p \in [1..Cardinality(S) -> S] : Range(p) = S}

\* order restricted to the keys of S
KeysInOrder(order, S) == SelectSeq(order, LAMBDA k : k \in S)

\* lines 645-649 for one series: of are the alerts of the series, hit the
\* bin indices they fall in; counts[i] is the count of bin index i - 1
SeriesCounts(als, of, hit, start_ms, bin_size_ms, num_bins) ==
    [i \in 1..num_bins |->
        IF (i - 1) \in hit
        THEN Cardinality({j \in of : TruncDiv(als[j].ts - start_ms, bin_size_ms) = i - 1})
        ELSE 0]

SeriesOf(als, key) == {j \in 1..Len(als) : als[j].fingerprint = key}

HitBins(als, of, start_ms, bin_size_ms, num_bins) ==
    {b \in {TruncDiv(als[j].ts - start_ms, bin_size_ms) : j \in of} :
        0 <= b /\ b < num_bins}

SeriesBins(als, key, of, start_ms, bin_size_ms, num_bins) ==
    [key    |-> key,
     counts |-> SeriesCounts(als, of, HitBins(als, of, start_ms, bin_size_ms, num_bins),
                             start_ms, bin_size_ms, num_bins)]

\* the dict bins as the list of its items, in the insertion order keys
BinsOfKeys(als, keys, start_ms, bin_size_ms, num_bins) ==
    [k \in 1..Len(keys) |->
        SeriesBins(als, keys[k], SeriesOf(als, keys[k]), start_ms, bin_size_ms, num_bins)]

\* _create_bins; order is the iteration order of the set series_keys
create_bins(als, start_ms, end_ms, bin_size_s, order) ==
    BinsOfKeys(als, KeysInOrder(order, FingerprintsOf(als)), start_ms,
               bin_size_s * 1000,
               TruncDiv(end_ms - start_ms, bin_size_s * 1000) + 1)

\* any(count > 0 for count in series_bins)
AnyPositive(series_bins) == \E i \in DOMAIN series_bins : series_bins[i] > 0

\* the number of distinct bin indices that hold an alert of some series
DistinctBinIndices(bins) ==
    IF bins = <<>> THEN 0
    ELSE Cardinality({i \in 1..Len(bins[1].counts) :
                         \E k \in 1..Len(bins) : bins[k].counts[i] > 0})

\* lines 594-597 and 603-606: the number compared with MIN_BINS
DistinctBins(bins) ==
    Cardinality({k \in 1..Len(bins) : AnyPositive(bins[k].counts)})

\* lines 561-566
SituationKeys(sit) ==
    UNION {{sit.raw_episodes[k].entity_key, sit.raw_episodes[k].fingerprint}
              \cup sit.raw_episodes[k].deploy_keys \cup sit.raw_episodes[k].net_keys :
           k \in 1..Len(sit.raw_episodes)}

RelevantTo(keys, als) ==
    SelectSeq(als, LAMBDA a :
        \/ a.entity_key \in keys
        \/ a.fingerprint \in keys
        \/ (a.deploy_key # "" /\ a.deploy_key \in keys)
        \/ (a.net_key # "" /\ a.net_key \in keys))

\* lines 568-573
RelevantAlerts(sit, als) == RelevantTo(SituationKeys(sit), als)

\* lines 580-583
Rehydrated(relevant, padded_start, padded_end) ==
    SelectSeq(relevant, LAMBDA a : padded_start <= a.ts /\ a.ts <= padded_end)

REASON_SHORT == "Situation duration < minimum"
REASON_BINS == "Could not achieve distinct bins or duration"

\* some iteration order of S: the number compared with MIN_BINS is the same
\* for every order
SomeOrder(S) == CHOOSE p \in IterationOrders(S) : TRUE

\* lines 608-616 with one bin fewer required
SpreadCheckOneFewer(pad_ms, bin_size_s, distinct_bins, padded_start, padded_end, rehydrated) ==
    IF distinct_bins >= MIN_BINS - 1 /\ padded_end - padded_start >= MIN_SITUATION_MS
    THEN [ok |-> TRUE, pad_ms |-> pad_ms, bin_size_s |-> bin_size_s,
          padded_start |-> padded_start, padded_end |-> padded_end,
          rehydrated |-> rehydrated]
    ELSE [ok |-> FALSE]

\* lines 608-616: the check of the binning that was tried last
SpreadCheck(pad_ms, bin_size_s, distinct_bins, padded_start, padded_end, rehydrated) ==
    IF distinct_bins >= MIN_BINS /\ padded_end - padded_start >= MIN_SITUATION_MS
    THEN [ok |-> TRUE, pad_ms |-> pad_ms, bin_size_s |-> bin_size_s,
          padded_start |-> padded_start, padded_end |-> padded_end,
          rehydrated |-> rehydrated]
    ELSE [ok |-> FALSE]

\* lines 589-606: the default bin width, and the fallback when it gives
\* fewer than MIN_BINS
SpreadBinning(pad_ms, distinct_default, padded_start, padded_end, rehydrated, order) ==
    IF distinct_default < MIN_BINS
    THEN SpreadCheck(pad_ms, BIN_SIZE_S_FALLBACK,
                     DistinctBins(create_bins(rehydrated, padded_start, padded_end,
                                              BIN_SIZE_S_FALLBACK, order)),
                     padded_start, padded_end, rehydrated)
    ELSE SpreadCheck(pad_ms, BIN_SIZE_S_DEFAULT, distinct_default,
                     padded_start, padded_end, rehydrated)

\* lines 576-606: one iteration of the loop, for its rehydrated alerts
SpreadTry(pad_ms, padded_start, padded_end, rehydrated, order) ==
    IF rehydrated = <<>> THEN [ok |-> FALSE]
    ELSE SpreadBinning(pad_ms,
                       DistinctBins(create_bins(rehydrated, padded_start, padded_end,
                                                BIN_SIZE_S_DEFAULT, order)),
                       padded_start, padded_end, rehydrated, order)

SpreadTryOf(pad_ms, padded_start, padded_end, rehydrated) ==
    SpreadTry(pad_ms, padded_start, padded_end, rehydrated,
              SomeOrder(FingerprintsOf(rehydrated)))

RECURSIVE SpreadLoop(_, _, _)

\* lines 585-587 and 618-619: double the padding after a failed iteration
SpreadNext(sit, relevant, pad_ms, try) ==
    IF try.ok THEN try ELSE SpreadLoop(sit, relevant, pad_ms * 2)

\* lines 575-619: the loop over the padding, up to the decision it takes:
\* the padding, the bin width and the rehydrated alerts it succeeds with, or
\* its failure
SpreadLoop(sit, relevant, pad_ms) ==
    IF pad_ms > MAX_PAD_MS THEN [ok |-> FALSE]
    ELSE SpreadNext(sit, relevant, pad_ms,
                    SpreadTryOf(pad_ms, sit.window.start - pad_ms, sit.window.end + pad_ms,
                                Rehydrated(relevant, sit.window.start - pad_ms,
                                           sit.window.end + pad_ms)))

\* the decision of _apply_temporal_spread(situation); als is self.alerts
SpreadDecision(sit, als) ==
    IF sit.window.end - sit.window.start < MIN_SITUATION_MS
    THEN [ok |-> FALSE]
    ELSE SpreadLoop(sit, RelevantAlerts(sit, als), PAD_MS_START)

\* the fingerprints whose iteration order decides the order of the bins
SpreadSeries(d) == IF d.ok THEN FingerprintsOf(d.rehydrated) ELSE {}

\* the slip of leaving a situation that cannot be spread unmarked
apply_temporal_spread_unmarked(sit, d, order) ==
    IF sit.window.end - sit.window.start < MIN_SITUATION_MS \/ ~ d.ok
    THEN sit
    ELSE [sit EXCEPT !.pad_ms_used = d.pad_ms,
                     !.bin_size_s = d.bin_size_s,
                     !.bins = create_bins(d.rehydrated, d.padded_start, d.padded_end,
                                          d.bin_size_s, order),
                     !.padded_window = <<[start |-> d.padded_start,
                                          end |-> d.padded_end]>>]

\* _apply_temporal_spread(situation), given its decision d and the order in
\* which the successful _create_bins call iterates its set of series keys
apply_temporal_spread(sit, d, order) ==
    IF sit.window.end - sit.window.start < MIN_SITUATION_MS
    THEN [sit EXCEPT !.insufficient_temporal_spread = TRUE, !.reason = REASON_SHORT]
    ELSE IF ~ d.ok
    THEN [sit EXCEPT !.insufficient_temporal_spread = TRUE, !.reason = REASON_BINS]
    ELSE [sit EXCEPT !.pad_ms_used = d.pad_ms,
                     !.bin_size_s = d.bin_size_s,
                     !.bins = create_bins(d.rehydrated, d.padded_start, d.padded_end,
                                          d.bin_size_s, order),
                     !.padded_window = <<[start |-> d.padded_start,
                                          end |-> d.padded_end]>>]

\* the situation is changed in place, with the decision d of the loop
SpreadWith(d) ==
    \E order \in IterationOrders(SpreadSeries(d)) :
        raw_situations' = [raw_situations EXCEPT
                              ![si] = apply_temporal_spread(@, d, order)]

\* run(), lines 1161-1168
ApplyTemporalSpread ==
    /\ pc = "spread"
    /\ SpreadWith(SpreadDecision(raw_situations[si], alerts))
    /\ pc' = "correlate"
    /\ UNCHANGED <<args, graph, raw_alerts, normalized, alerts, dedup_cache, echo_tracker,
                   flap_tracker, episodes, situations, correlations, si, output>>

----------------------------------------------------------------------------
(* CorrelationEngine: the three kernels, engine.py:749-881.  A kernel       *)
(* returns the empty sequence for None and a sequence of one record         *)
(* otherwise.  Scores are kept as exact fractions: a score s = x / sqrt(y)  *)
(* is the pair (x, y), and s >= c is decided on x * x and y.                *)

Min2(x, y) == IF x <= y THEN x ELSE y
Max2(x, y) == IF x >= y THEN x ELSE y

\* sum(s) for a list of counts: the number of pairs of a position i and a
\* unit 1..s[i]
SumSeq(s) == Cardinality(UNION {{i} \X (1..s[i]) : i \in 1..Len(s)})

\* sorted(s)[k - 1]: the k-th smallest element of s
KthSmallest(s, k) ==
    CHOOSE v \in Range(s) :
        /\ Cardinality({i \in 1..Len(s) : s[i] < v}) < k
        /\ Cardinality({i \in 1..Len(s) : s[i] <= v}) >= k

\* 2 * statistics.median(s) for a list of n integers
Median2N(s, n) ==
    IF n % 2 = 1 THEN 2 * KthSmallest(s, (n + 1) \div 2)
    ELSE KthSmallest(s, n \div 2) + KthSmallest(s, n \div 2 + 1)

Median2(s) == Median2N(s, Len(s))

Abs(x) == IF x >= 0 THEN x ELSE -x

\* line 761, times 2: 2 * |x - median| for every x; med2 is twice the median
Deviations2(series, med2) == [i \in 1..Len(series) |-> Abs(2 * series[i] - med2)]

\* line 762, times 4: median + 3 * mad, where Median2(dev2) is 4 * mad
ThresholdOf(series, med2) == 2 * med2 + 3 * Median2(Deviations2(series, med2))

\* get_burst_threshold (lines 757-762), times 4; -1 stands for infinity
BurstThreshold4(series) ==
    IF series = <<>> \/ (\A i \in 1..Len(series) : series[i] = 0) THEN -1
    ELSE ThresholdOf(series, Median2(series))

BurstsAbove(series, t4) ==
    IF t4 < 0 THEN {}
    ELSE {i - 1 : i \in {j \in 1..Len(series) : 4 * series[j] > t4}}

\* lines 768-769: the indices (from 0) of the bins above the threshold
Bursts(series) == BurstsAbove(series, BurstThreshold4(series))

\* lines 775-780: the bursts of A with a burst of B within +-1 bin
AlignedBursts(bursts_a, bursts_b) ==
    Cardinality({a \in bursts_a : \E b \in bursts_b : Abs(a - b) <= 1})

\* lines 782-794
BurstScore(aligned, product, min_support) ==
    IF aligned < min_support THEN <<>>
    \* aligned / sqrt(product) >= 0.2
    ELSE IF 25 * aligned * aligned >= product
         THEN <<[aligned |-> aligned, score |-> <<aligned, product>>]>>
         ELSE <<>>

\* lines 771-794
BurstOf(bursts_a, bursts_b, min_support) ==
    IF bursts_a = {} \/ bursts_b = {} THEN <<>>
    ELSE BurstScore(AlignedBursts(bursts_a, bursts_b),
                    Cardinality(bursts_a) * Cardinality(bursts_b), min_support)

\* _burst_correlation
burst_correlation(series_a, series_b, min_support) ==
    IF Len(series_a) # Len(series_b) \/ Len(series_a) < 3 THEN <<>>
    ELSE BurstOf(Bursts(series_a), Bursts(series_b), min_support)

\* the arguments (co_count, count_a, count_b, total), after smoothing, for
\* which the reals give a PMI of exactly 1 and the double arithmetic of
\* lines 821-828 gives 0.9999999999999997 (total < 1200, counts <= 9)
PmiRoundedBelowOne == {<<2, 5, 5, 25>>, <<1, 5, 5, 50>>}

\* lines 821-830: log2(p_ab / (p_a * p_b)) >= 1.0
PmiAtLeastOne(co, ca, cb, total) ==
    /\ co * total >= 2 * ca * cb
    /\ <<co, ca, cb, total>> \notin PmiRoundedBelowOne

\* the positions (from 1) of the active bins of a series
Active(series) == {i \in 1..Len(series) : series[i] > 0}

\* lines 811-836, for the counts before smoothing
PmiOf(co_count, count_a, count_b, total, min_support) ==
    IF co_count < min_support THEN <<>>
    ELSE IF PmiAtLeastOne(co_count + 1, count_a + 1, count_b + 1, total + 4)
         THEN <<[pmi |-> <<(co_count + 1) * (total + 4), (count_a + 1) * (count_b + 1)>>,
                 co_count |-> co_count]>>
         ELSE <<>>

PmiOfActive(A, B, total, min_support) ==
    PmiOf(Cardinality(A \cap B), Cardinality(A), Cardinality(B), total, min_support)

\* _pmi_correlation; the pmi is kept as the fraction whose log2 it is
pmi_correlation(series_a, series_b, min_support) ==
    IF Len(series_a) # Len(series_b) \/ Len(series_a) < 3 THEN <<>>
    ELSE PmiOfActive(Active(series_a), Active(series_b), Len(series_a), min_support)

\* x1 / sqrt(y1) > x2 / sqrt(y2), for x >= 0 and y > 0
ScoreGreater(x1, y1, x2, y2) == x1 * x1 * y2 > x2 * x2 * y1

\* lines 853-863 for one lag
LagAligned(A, B, lag) == Cardinality({i \in A : i + lag \in B})
LagTotalA(A, n, lag) == Cardinality({i \in A : i <= n - lag})
LagTotalB(B, lag)    == Cardinality({j \in B : j > lag})

\* line 869 as the fraction aligned / sqrt(total_a * total_b)
LagScore(A, B, n, lag) ==
    <<LagAligned(A, B, lag), LagTotalA(A, n, lag) * LagTotalB(B, lag)>>

\* the lags whose score can replace the initial best_score of 0
ScoringLags(max_lag_bins, A, B, n) ==
    {lag \in 0..max_lag_bins :
        LagTotalA(A, n, lag) # 0 /\ LagTotalB(B, lag) # 0 /\ LagAligned(A, B, lag) > 0}

\* scores[lag]: the score of every scoring lag
LagScores(scoring, A, B, n) == [lag \in scoring |-> LagScore(A, B, n, lag)]

\* the first lag of the greatest score
FirstBest(scores) ==
    CHOOSE lag \in DOMAIN scores :
        \A o \in DOMAIN scores :
            /\ ~ ScoreGreater(scores[o][1], scores[o][2], scores[lag][1], scores[lag][2])
            /\ o < lag => ScoreGreater(scores[lag][1], scores[lag][2],
                                       scores[o][1], scores[o][2])

BestOf(scores, first) == [score |-> scores[first], lag |-> first]

\* lines 852-873: the best lag.  A score replaces the best one only when it
\* is greater, so the loop ends with the first lag of the greatest score,
\* and with score 0 and lag 0 when no lag has an aligned pair.
BestLagOf(scores) ==
    IF DOMAIN scores = {} THEN [score |-> <<0, 1>>, lag |-> 0]
    ELSE BestOf(scores, FirstBest(scores))

BestLag(max_lag_bins, A, B, n) ==
    BestLagOf(LagScores(ScoringLags(max_lag_bins, A, B, n), A, B, n))

\* lines 875-881 without the two conditions on the active bins
LeadLagOfAnyActivity(best, A, B) ==
    IF 100 * best.score[1] * best.score[1] >= 9 * best.score[2]
    THEN <<[lag_ms |-> best.lag * 1000, score |-> best.score]>>
    ELSE <<>>

\* lines 875-881
LeadLagOf(best, A, B) ==
    \* best_score >= 0.3 and two active bins each
    IF /\ 100 * best.score[1] * best.score[1] >= 9 * best.score[2]
       /\ Cardinality(A) >= 2
       /\ Cardinality(B) >= 2
    THEN <<[lag_ms |-> best.lag * 1000, score |-> best.score]>>
    ELSE <<>>

LeadLagOfActive(A, B, n, max_lag) ==
    LeadLagOf(BestLag(Min2(max_lag, n - 1), A, B, n), A, B)

\* _leadlag_correlation; A and B are the positions (from 1) of the active bins
leadlag_correlation(series_a, series_b, max_lag) ==
    IF Len(series_a) # Len(series_b) \/ Len(series_a) < 3 THEN <<>>
    ELSE LeadLagOfActive(Active(series_a), Active(series_b), Len(series_a), max_lag)

----------------------------------------------------------------------------
(* CorrelationEngine: _run_correlations, engine.py:653-747 *)

MAX_SERIES == 400
MAX_PAIRS == 20000

\* the order of fingerprint strings: Python compares them lexicographically
FingerprintOrder == <<"fa", "fb", "fc", "fd">>

FpRank(f) == CHOOSE i \in 1..Len(FingerprintOrder) : FingerprintOrder[i] = f

StrLess(f, g) == FpRank(f) < FpRank(g)

BinsOf(bins, key) == bins[CHOOSE k \in 1..Len(bins) : bins[k].key = key].counts

\* (activity, key) tuples compared as Python compares tuples
ActivityLess(bins, k1, k2) ==
    LET a1 == SumSeq(BinsOf(bins, k1))
        a2 == SumSeq(BinsOf(bins, k2))
    IN  a1 < a2 \/ (a1 = a2 /\ StrLess(k1, k2))

\* lines 670-675: the keys by (activity, key), largest first
RECURSIVE SortByActivityDesc(_, _)
SortByActivityDesc(bins, keys) ==
    IF keys = {} THEN <<>>
    ELSE LET top == CHOOSE k \in keys : \A o \in keys \ {k} : ActivityLess(bins, o, k)
         IN  <<top>> \o SortByActivityDesc(bins, keys \ {top})

Prefix(s, n) == IF Len(s) > n THEN SubSeq(s, 1, n) ELSE s

\* the slip of enumerating every pair in both orders
RECURSIVE BothOrders2(_, _, _)
BothOrders2(keys, i, j) ==
    IF i >= Len(keys) THEN <<>>
    ELSE IF j > Len(keys) THEN BothOrders2(keys, i + 1, i + 2)
    ELSE <<<<keys[i], keys[j]>>, <<keys[j], keys[i]>>>> \o BothOrders2(keys, i, j + 1)

\* list(combinations(keys, 2)): pairs of positions i < j, by i and then j
RECURSIVE Combinations2(_, _, _)
Combinations2(keys, i, j) ==
    IF i >= Len(keys) THEN <<>>
    ELSE IF j > Len(keys) THEN Combinations2(keys, i + 1, i + 2)
    ELSE <<<<keys[i], keys[j]>>>> \o Combinations2(keys, i, j + 1)

\* lines 738-747
get_resource_ids_for_series(sit, series_key) ==
    UNION {sit.raw_episodes[k].resource_ids :
              k \in {x \in 1..Len(sit.raw_episodes) :
                        sit.raw_episodes[x].fingerprint = series_key}}

CorrelationRecord(sit, method, series_a, series_b, metrics) ==
    [type |-> "correlation", method |-> method,
     situation_id |-> sit.situation_id,
     series_a |-> series_a, series_b |-> series_b,
     window |-> sit.padded_window[1],
     metrics |-> metrics,
     resource_ids_a |-> get_resource_ids_for_series(sit, series_a),
     resource_ids_b |-> get_resource_ids_for_series(sit, series_b)]

\* lines 691-734: the records of one pair, in the order they are appended
RecordsOf(sit, pair, burst_corr, pmi_corr, leadlag_corr) ==
    (IF burst_corr # <<>>
       THEN <<CorrelationRecord(sit, "burst", pair[1], pair[2], [burst |-> burst_corr[1]])>>
       ELSE <<>>)
    \o (IF pmi_corr # <<>>
          THEN <<CorrelationRecord(sit, "pmi", pair[1], pair[2], [pmi |-> pmi_corr[1]])>>
          ELSE <<>>)
    \o (IF leadlag_corr # <<>>
          THEN <<CorrelationRecord(sit, "leadlag", pair[1], pair[2],
                                   [leadlag |-> leadlag_corr[1]])>>
          ELSE <<>>)

KernelsOf(sit, pair, a, b, min_support, max_lag) ==
    RecordsOf(sit, pair, burst_correlation(a, b, min_support),
              pmi_correlation(a, b, min_support),
              leadlag_correlation(a, b, max_lag))

PairRecords(sit, pair, min_support, max_lag) ==
    KernelsOf(sit, pair, BinsOf(sit.bins, pair[1]), BinsOf(sit.bins, pair[2]),
              min_support, max_lag)

RECURSIVE RecordsOfPairs(_, _, _, _)
RecordsOfPairs(sit, pairs, min_support, max_lag) ==
    IF pairs = <<>> THEN <<>>
    ELSE PairRecords(sit, Head(pairs), min_support, max_lag)
         \o RecordsOfPairs(sit, Tail(pairs), min_support, max_lag)

\* lines 663-682: the pairs that are processed
CorrelationPairs(bins, max_series, max_pairs) ==
    LET all_keys == [k \in 1..Len(bins) |-> bins[k].key]
        series_keys == IF Len(all_keys) > max_series
                       THEN Prefix(SortByActivityDesc(bins, Range(all_keys)), max_series)
                       ELSE all_keys
    IN  Prefix(Combinations2(series_keys, 1, 2), max_pairs)

\* _run_correlations with the two limits as parameters
run_correlations_limited(sit, min_support, max_lag, max_series, max_pairs) ==
    IF sit.insufficient_temporal_spread THEN <<>>
    ELSE IF sit.bins = <<>> THEN <<>>
    ELSE RecordsOfPairs(sit, CorrelationPairs(sit.bins, max_series, max_pairs),
                        min_support, max_lag)

\* _run_correlations
run_correlations(sit, min_support, max_lag) ==
    run_correlations_limited(sit, min_support, max_lag, MAX_SERIES, MAX_PAIRS)

\* run(), lines 1170-1176, with the two limits of _run_correlations
RunCorrelationsWith(max_series, max_pairs) ==
    /\ pc = "correlate"
    /\ correlations' =
          IF ~ raw_situations[si].insufficient_temporal_spread
          THEN correlations \o run_correlations_limited(raw_situations[si],
                                                        args.min_support, args.max_lag,
                                                        max_series, max_pairs)
          ELSE correlations
    /\ pc' = "cause"
    /\ UNCHANGED <<args, graph, raw_alerts, normalized, alerts, dedup_cache, echo_tracker,
                   flap_tracker, episodes, raw_situations, situations, si, output>>

RunCorrelations == RunCorrelationsWith(MAX_SERIES, MAX_PAIRS)

----------------------------------------------------------------------------
(* CauseSelector: _select_primary_cause and its helpers, engine.py:883-1025.*)
(* Scores are fixed-point numbers: SCORE_ONE stands for 1.0.                *)

SCORE_ONE == 1000000

\* the path gate: min(confidence, 0.35)
PATH_GATE_CAP == 350000


\* the entities the breadth-first search of _has_path_bfs visits from start
RECURSIVE Visited(_, _)
Visited(g, seen) ==
    LET next == seen \cup UNION {Get(g, e, {}) : e \in seen}
    IN  IF next = seen THEN seen ELSE Visited(g, next)

\* _has_path_bfs (lines 946-968)
has_path_bfs(g, start, target) ==
    IF start = target THEN TRUE ELSE target \in Visited(g, {start})

\* _check_dependency_path (lines 928-944)
check_dependency_path(g, cause_episode, all_episodes) ==
    IF DOMAIN g = {} THEN TRUE
    ELSE \E k \in 1..Len(all_episodes) :
            /\ all_episodes[k] # cause_episode
            /\ has_path_bfs(g, cause_episode.entity_key, all_episodes[k].entity_key)

\* _calculate_flap_score (lines 298-315)
calculate_flap_score(flaps, fingerprint, entity_key) ==
    LET flap_key == <<fingerprint, entity_key>>
        entries  == Get(flaps, flap_key, <<>>)
        toggles  == Cardinality({i \in 2..Len(entries) : entries[i][2] # entries[i - 1][2]})
    IN  IF flap_key \notin DOMAIN flaps THEN 0
        ELSE IF Len(entries) < 2 THEN 0
        ELSE Min2((3 * SCORE_ONE) \div 10, (toggles * SCORE_ONE) \div Len(entries))

\* math.log(max(1, n)) / math.log(10), in fixed point
Log10Fixed(n) ==
    CASE n <= 1 -> 0
      [] n = 2 -> 301030
      [] n = 3 -> 477121
      [] n = 4 -> 602060
      [] n = 5 -> 698970
      [] OTHER -> 778151

\* lines 1002-1015
SeverityScore(ep, als) ==
    LET sevs == {als[ep.alerts[k]].severity : k \in 1..Len(ep.alerts)}
    IN  IF "critical" \in sevs THEN SCORE_ONE
        ELSE IF "high" \in sevs THEN (3 * SCORE_ONE) \div 4
        ELSE IF "medium" \in sevs THEN SCORE_ONE \div 2
        ELSE SCORE_ONE \div 4

\* _calculate_score_components
calculate_score_components(ep, sit, has_path, g, flaps, echoes, als) ==
    [change_proximity |-> IF ep.deploy_keys # {} THEN SCORE_ONE ELSE 0,
     lead_lag         |-> 0,
     graph_path       |-> IF has_path /\ DOMAIN g # {} THEN SCORE_ONE \div (1 + 1) ELSE 0,
     cardinality      |-> Log10Fixed(Cardinality({sit.raw_episodes[k].entity_key :
                                                     k \in 1..Len(sit.raw_episodes)})),
     severity         |-> SeverityScore(ep, als),
     flap             |-> calculate_flap_score(flaps, ep.fingerprint, ep.entity_key),
     echo             |-> LET echo_key == <<ep.fingerprint, ep.entity_key>>
                          IN  IF echo_key \in DOMAIN echoes /\ Len(echoes[echo_key]) > 1
                              THEN (3 * SCORE_ONE) \div 10 ELSE 0]

\* lines 898-908: the composite score, clamped to [0, 1]
Confidence(c) ==
    LET composite == (35 * c.change_proximity + 20 * c.lead_lag + 20 * c.graph_path
                      + 15 * c.cardinality + 15 * c.severity
                      - 10 * c.flap - 5 * c.echo) \div 100
    IN  Min2(SCORE_ONE, Max2(0, composite))

\* line 890: min(episodes, key=start), the first of the earliest
EarliestEpisode(eps) ==
    eps[CHOOSE k \in 1..Len(eps) :
           /\ \A x \in 1..Len(eps) : eps[k].start <= eps[x].start
           /\ \A x \in 1..(k - 1) : eps[x].start > eps[k].start]

\* _select_primary_cause
select_primary_cause(sit, g, flaps, echoes, als) ==
    IF sit.raw_episodes = <<>> THEN sit
    ELSE
      LET earliest_episode == EarliestEpisode(sit.raw_episodes)
          has_path == check_dependency_path(g, earliest_episode, sit.raw_episodes)
          components == calculate_score_components(earliest_episode, sit, has_path,
                                                   g, flaps, echoes, als)
          confidence0 == Confidence(components)
          confidence == IF ~ has_path /\ DOMAIN g # {}
                        THEN Min2(confidence0, PATH_GATE_CAP) ELSE confidence0
      IN  [sit EXCEPT !.primary_cause = <<[entity |-> earliest_episode.entity_key,
                                           fingerprint |-> earliest_episode.fingerprint,
                                           confidence |-> confidence,
                                           lag_ms |-> 0]>>,
                      !.score = <<confidence>>]

\* tracker[key] of a defaultdict(list): a missing key is inserted with []
DefaultDictRead(tracker, key) ==
    IF key \in DOMAIN tracker THEN tracker ELSE Put(tracker, key, <<>>)

\* the trackers after a scoring that empties the entries it has read
TrackersAfterScoringConsumed(flaps, echoes, key) ==
    [flap_tracker |-> IF key \in DOMAIN flaps THEN Put(flaps, key, <<>>) ELSE flaps,
     echo_tracker |-> IF key \in DOMAIN echoes THEN Put(echoes, key, <<>>) ELSE echoes]

\* the trackers after lines 300-305 and 1021-1022: both are subscripted only
\* behind a membership test
TrackersAfterScoring(flaps, echoes, key) ==
    [flap_tracker |-> IF key \notin DOMAIN flaps THEN flaps ELSE DefaultDictRead(flaps, key),
     echo_tracker |-> IF key \in DOMAIN echoes THEN DefaultDictRead(echoes, key) ELSE echoes]

\* the trackers after _select_primary_cause of sit
TrackersAfterCause(sit, flaps, echoes) ==
    IF sit.raw_episodes = <<>> THEN [flap_tracker |-> flaps, echo_tracker |-> echoes]
    ELSE TrackersAfterScoring(flaps, echoes,
                              <<EarliestEpisode(sit.raw_episodes).fingerprint,
                                EarliestEpisode(sit.raw_episodes).entity_key>>)

\* run(), lines 1178-1181, and the loop's step to the next situation
SelectPrimaryCause ==
    /\ pc = "cause"
    /\ LET sit == select_primary_cause(raw_situations[si], graph, flap_tracker,
                                       echo_tracker, alerts)
       IN  /\ raw_situations' = [raw_situations EXCEPT ![si] = sit]
           /\ situations' = Append(situations, sit)
    /\ flap_tracker' = TrackersAfterCause(raw_situations[si], flap_tracker,
                                          echo_tracker).flap_tracker
    /\ echo_tracker' = TrackersAfterCause(raw_situations[si], flap_tracker,
                                          echo_tracker).echo_tracker
    /\ si' = si + 1
    /\ pc' = IF si < Len(raw_situations) THEN "spread" ELSE "write"
    /\ UNCHANGED <<args, graph, raw_alerts, normalized, alerts, dedup_cache,
                   episodes, correlations, output>>

----------------------------------------------------------------------------
(* Emitter: _write_output, engine.py:1190-1238 *)

RunMeta ==
    [type |-> "run_meta",
     max_lag_sec |-> args.max_lag,
     min_support |-> args.min_support,
     dedup_ttl_sec |-> args.dedup_ttl,
     episode_gap_sec |-> args.episode_gap,
     raw_alerts |-> Len(raw_alerts),
     processed_alerts |-> Len(alerts),
     episodes_created |-> Len(episodes),
     situations_created |-> Len(situations),
     correlations_found |-> Len(correlations)]

\* lines 1217-1233; an absent primary_cause is {} and an absent score 0.0
OutputSituation(sit) ==
    [type |-> "situation",
     situation_id |-> sit.situation_id,
     window |-> sit.window,
     episodes |-> sit.episodes,
     primary_cause |-> sit.primary_cause,
     blast_radius |-> sit.blast_radius,
     score |-> IF sit.score = <<>> THEN 0 ELSE sit.score[1],
     insufficient_temporal_spread |-> sit.insufficient_temporal_spread,
     reason |-> sit.reason,
     pad_ms_used |-> sit.pad_ms_used,
     bin_size_s |-> sit.bin_size_s]

\* the slip of writing the correlations before the situations
write_output_correlations_first ==
    <<RunMeta>> \o correlations
                \o [k \in 1..Len(situations) |-> OutputSituation(situations[k])]

write_output ==
    <<RunMeta>> \o [k \in 1..Len(situations) |-> OutputSituation(situations[k])]
                \o correlations

\* run(), line 1187
WriteOutput ==
    /\ pc = "write"
    /\ output' = write_output
    /\ pc' = "done"
    /\ UNCHANGED <<args, graph, raw_alerts, normalized, alerts, dedup_cache, echo_tracker,
                   flap_tracker, episodes, raw_situations, situations, correlations, si>>

Next ==
    \/ ApplyNoiseCut
    \/ BuildEpisodes
    \/ BuildSituations
    \/ ApplyTemporalSpread
    \/ RunCorrelations
    \/ SelectPrimaryCause
    \/ WriteOutput

----------------------------------------------------------------------------
(* Initial states: AlertEngine.__init__ (lines 70-82) followed by run() up  *)
(* to line 1133, for a family of configurations, graphs and normalized      *)
(* alert lists.                                                             *)

DefaultArgs == [dedup_ttl |-> 120, episode_gap |-> 300, min_support |-> 3, max_lag |-> 90]

\* the raw record behind a normalized alert, named by the alert it gives
RawOf(alert) == [shape |-> "datadog", alert |-> alert]

InitWith(a, g, als) ==
    /\ args = a
    /\ graph = g
    /\ raw_alerts = [k \in 1..Len(als) |-> RawOf(als[k])]
    /\ normalized = als
    /\ alerts = als
    /\ dedup_cache = EmptyMap
    /\ echo_tracker = EmptyMap
    /\ flap_tracker = EmptyMap
    /\ episodes = <<>>
    /\ raw_situations = <<>>
    /\ situations = <<>>
    /\ correlations = <<>>
    /\ si = 0
    /\ output = <<>>
    /\ pc = "noise"

(* _apply_noise_cut on lists of up to MaxNoiseAlerts alerts of one          *)
(* fingerprint and entity, in any order: timestamps around the dedup TTL    *)
(* and inside the echo window, two severities, two sources.                 *)
MaxNoiseAlerts == 3

NoiseTs == {0, 60000, 125000}

NoiseUniverse ==
    {Alert(t, s, "fa", v, "svc:a", "firing", "", "") :
        t \in NoiseTs, s \in {"datadog", "newrelic"}, v \in {"high", "critical"}}

NoiseTtls == {0, 60, 120}

InitNoise ==
    \E als \in ListsUpTo(MaxNoiseAlerts, NoiseUniverse) \ {<<>>}, ttl \in NoiseTtls :
        InitWith([DefaultArgs EXCEPT !.dedup_ttl = ttl], EmptyMap, als)

SpecNoise == InitNoise /\ [][ApplyNoiseCut]_vars

(* _apply_noise_cut on lists of up to MaxEchoAlerts alerts of one           *)
(* fingerprint and entity, in any order, with timestamps inside and outside *)
(* the echo window of 10 seconds, two sources, two severities, and a dedup  *)
(* TTL of 0, 5 or 120 seconds.                                              *)
MaxEchoAlerts == 3

EchoUniverse ==
    {Alert(t, s, "fa", v, "svc:a", "firing", "", "") :
        t \in {0, 5000, 12000}, s \in {"datadog", "newrelic"}, v \in {"high", "critical"}}

InitEcho ==
    \E als \in ListsUpTo(MaxEchoAlerts, EchoUniverse) \ {<<>>}, ttl \in {0, 5, 120} :
        InitWith([DefaultArgs EXCEPT !.dedup_ttl = ttl], EmptyMap, als)

SpecEcho == InitEcho /\ [][ApplyNoiseCut]_vars

\* the lists in ascending order of ts
TsOrdered(als) == \A i \in 1..(Len(als) - 1) : als[i].ts <= als[i + 1].ts

(* The whole pipeline on up to MaxAlerts alerts in ascending order of ts:   *)
(* three fingerprints on one service and a fourth on a second service, 10   *)
(* seconds apart, with an episode gap below and above that distance.  A     *)
(* fingerprint hashes the service (lines 145-151), so no fingerprint is on  *)
(* two services.                                                            *)
MaxAlerts == 3

PipelineUniverse ==
    {Alert(t, "datadog", k[2], "high", k[1], "firing", "", "") :
        t \in {0, 10000},
        k \in {<<"svc:a", "fa">>, <<"svc:a", "fb">>, <<"svc:a", "fc">>, <<"svc:b", "fd">>}}

PipelineArgs ==
    {[dedup_ttl |-> 5, episode_gap |-> g, min_support |-> 1, max_lag |-> 90] : g \in {5, 300}}

Init ==
    \E als \in {l \in ListsUpTo(MaxAlerts, PipelineUniverse) \ {<<>>} : TsOrdered(l)},
       a \in PipelineArgs :
        InitWith(a, EmptyMap, als)

Spec == Init /\ [][Next]_vars

(* run() from its first line, on up to MaxRawAlerts raw records: records    *)
(* of one service with a timestamp in seconds or a first_seen time, records *)
(* without a timestamp and without any tag, with and without a message, a   *)
(* record of unknown shape and one that makes the normalizer raise.         *)
MaxRawAlerts == 3

ServiceTags == [k \in {"service"} |-> "a"]

RawUniverse ==
    {RawAlert("datadog", "1", Seconds(10), NoTimestamp, NoTimestamp, ServiceTags,
              "ta", "", "e1"),
     RawAlert("datadog", "2", Seconds(20), NoTimestamp, NoTimestamp, ServiceTags,
              "tb", "", "e2"),
     RawAlert("datadog", "3", NoTimestamp, Seconds(20), NoTimestamp, ServiceTags,
              "", "ok", ""),
     RawAlert("datadog", "4", NoTimestamp, NoTimestamp, NoTimestamp, EmptyMap,
              "ta", "", "e4"),
     RawAlert("datadog", "5", NoTimestamp, NoTimestamp, NoTimestamp, EmptyMap,
              "", "", ""),
     RawAlert("unknown", "6", Seconds(10), NoTimestamp, NoTimestamp, ServiceTags,
              "ta", "", ""),
     RawAlert("broken", "7", NoTimestamp, NoTimestamp, NoTimestamp, EmptyMap,
              "", "", "")}

InitRun ==
    /\ args \in PipelineArgs
    /\ graph = EmptyMap
    /\ raw_alerts \in ListsUpTo(MaxRawAlerts, RawUniverse)
    /\ normalized = <<>>
    /\ alerts = <<>>
    /\ dedup_cache = EmptyMap
    /\ echo_tracker = EmptyMap
    /\ flap_tracker = EmptyMap
    /\ episodes = <<>>
    /\ raw_situations = <<>>
    /\ situations = <<>>
    /\ correlations = <<>>
    /\ si = 0
    /\ output = <<>>
    /\ pc = "load"

NextRun ==
    \/ NormalizeAlerts
    \/ ApplyNoiseCut
    \/ BuildEpisodes
    \/ BuildSituations
    \/ ApplyTemporalSpread
    \/ RunCorrelations
    \/ SelectPrimaryCause
    \/ WriteOutput

SpecRun == InitRun /\ [][NextRun]_vars

(* The EpisodeBuilder on two fingerprints of one entity: every timestamp of *)
(* EpisodeTs carries an alert of one of them or none, the list is in        *)
(* ascending or descending order, and the episode gap is 10 or 300 seconds. *)
EpisodeTs == <<0, 10000, 20000, 700000, 710000>>

Reverse(s) == [i \in 1..Len(s) |-> s[Len(s) + 1 - i]]

\* the alerts of the choice c: c[i] is the fingerprint at EpisodeTs[i], or ""
RECURSIVE AlertsOfChoice(_, _)
AlertsOfChoice(c, i) ==
    IF i > Len(EpisodeTs) THEN <<>>
    ELSE (IF c[i] = "" THEN <<>>
          ELSE <<Alert(EpisodeTs[i], "datadog", c[i], "high", "svc:a", "firing", "", "")>>)
         \o AlertsOfChoice(c, i + 1)

EpisodeLists ==
    {AlertsOfChoice(c, 1) : c \in [1..Len(EpisodeTs) -> {"", "fa", "fb"}]} \ {<<>>}

InitEpisodes ==
    \E als \in EpisodeLists \cup {Reverse(l) : l \in EpisodeLists}, g \in {10, 300} :
        InitWith([dedup_ttl |-> 5, episode_gap |-> g, min_support |-> 3, max_lag |-> 90],
                 EmptyMap, als)

NextEpisodes == ApplyNoiseCut \/ BuildEpisodes

SpecEpisodes == InitEpisodes /\ [][NextEpisodes]_vars

(* The SituationAssembler on up to MaxSituationAlerts alerts in ascending   *)
(* order of ts: three services with timestamps one halo apart, two pods     *)
(* without a service that share a fingerprint, alerts that share a deploy   *)
(* key or a net key, and graphs without and with an edge.                   *)
MaxSituationAlerts == 3

SituationUniverse ==
    {Alert(t, "datadog", k[2], "high", k[1], "firing", "", "") :
        t \in {0, 300000, 600000},
        k \in {<<"svc:a", "fa">>, <<"svc:b", "fb">>, <<"svc:c", "fc">>}}
    \cup {Alert(0, "datadog", "fd", "high", "pod:p", "firing", "", ""),
          Alert(0, "datadog", "fd", "high", "pod:q", "firing", "", ""),
          Alert(0, "datadog", "fb", "high", "svc:b", "firing", "d1", ""),
          Alert(0, "datadog", "fc", "high", "svc:c", "firing", "d1", ""),
          Alert(0, "datadog", "fa", "high", "svc:a", "firing", "", "n1"),
          Alert(300000, "datadog", "fc", "high", "svc:c", "firing", "", "n1")}

SituationGraphs == {EmptyMap, [e \in {"svc:a"} |-> {"svc:b"}]}

InitSituations ==
    \E als \in {l \in ListsUpTo(MaxSituationAlerts, SituationUniverse) \ {<<>>} : TsOrdered(l)},
       g \in SituationGraphs :
        InitWith([dedup_ttl |-> 5, episode_gap |-> 300, min_support |-> 3, max_lag |-> 90],
                 g, als)

NextSituations == ApplyNoiseCut \/ BuildEpisodes \/ BuildSituations

SpecSituations == InitSituations /\ [][NextSituations]_vars

(* The whole pipeline with a dependency graph: up to MaxCauseAlerts alerts  *)
(* of two services with two fingerprints each, with and without a deploy    *)
(* key, and no graph, a graph over other entities, or an edge between the   *)
(* two services.                                                            *)
MaxCauseAlerts == 2

CauseUniverse ==
    {Alert(t, "datadog", k[2], "high", k[1], "firing", d, "") :
        t \in {0, 10000}, d \in {"", "d1"},
        k \in {<<"svc:a", "fa">>, <<"svc:a", "fb">>, <<"svc:b", "fc">>, <<"svc:b", "fd">>}}

CauseGraphs ==
    {EmptyMap, [e \in {"svc:x"} |-> {"svc:y"}], [e \in {"svc:a"} |-> {"svc:b"}]}

InitCause ==
    \E als \in ListsUpTo(MaxCauseAlerts, CauseUniverse) \ {<<>>}, g \in CauseGraphs :
        InitWith([dedup_ttl |-> 5, episode_gap |-> 300, min_support |-> 1, max_lag |-> 90],
                 g, als)

SpecCause == InitCause /\ [][Next]_vars

(* The whole pipeline with a graph in which the second service is reached   *)
(* from the first over one edge, over two edges, or not at all.             *)
PathGraphs ==
    {[e \in {"svc:a"} |-> {"svc:b"}],
     [e \in {"svc:a", "svc:x"} |-> IF e = "svc:a" THEN {"svc:x"} ELSE {"svc:b"}],
     [e \in {"svc:x"} |-> {"svc:y"}]}

InitPaths ==
    \E als \in ListsUpTo(MaxCauseAlerts, CauseUniverse) \ {<<>>}, g \in PathGraphs :
        InitWith([dedup_ttl |-> 5, episode_gap |-> 300, min_support |-> 1, max_lag |-> 90],
                 g, als)

SpecPaths == InitPaths /\ [][Next]_vars

(* The whole pipeline on up to MaxRehydrateAlerts alerts of one service in  *)
(* ascending order of ts: two fingerprints at 0 and 10 seconds and two,     *)
(* past the join halo of 5 minutes but inside the largest padding, at 400   *)
(* seconds.                                                                 *)
MaxRehydrateAlerts == 4

RehydrateUniverse ==
    {Alert(k[1], "datadog", k[2], "high", "svc:a", "firing", "", "") :
        k \in {<<0, "fa">>, <<10000, "fa">>, <<10000, "fb">>,
               <<400000, "fb">>, <<400000, "fc">>}}

InitRehydrate ==
    \E als \in {l \in ListsUpTo(MaxRehydrateAlerts, RehydrateUniverse) \ {<<>>} : TsOrdered(l)} :
        InitWith([dedup_ttl |-> 5, episode_gap |-> 300, min_support |-> 1, max_lag |-> 90],
                 EmptyMap, als)

SpecRehydrate == InitRehydrate /\ [][Next]_vars

(* The whole pipeline with the two limits of _run_correlations scaled down  *)
(* to ScaledMaxSeries series and ScaledMaxPairs pairs: four fingerprints on *)
(* one entity, each with no alert, one alert or two alerts 10 seconds apart. *)
ScaledMaxSeries == 3
ScaledMaxPairs == 2

RunCorrelationsScaled == RunCorrelationsWith(ScaledMaxSeries, ScaledMaxPairs)

\* the alerts of the choice c: c[f] is the set of timestamps of fingerprint f
RECURSIVE AlertsOfSeries(_, _)
AlertsOfSeries(c, i) ==
    IF i > Len(FingerprintOrder) THEN <<>>
    ELSE [k \in 1..Cardinality(c[FingerprintOrder[i]]) |->
             Alert(IF k = 1 THEN SetMin(c[FingerprintOrder[i]])
                            ELSE SetMax(c[FingerprintOrder[i]]),
                   "datadog", FingerprintOrder[i], "high", "svc:a", "firing", "", "")]
         \o AlertsOfSeries(c, i + 1)

CapsLists ==
    {AlertsOfSeries(c, 1) : c \in [Range(FingerprintOrder) -> SUBSET {0, 10000}]} \ {<<>>}

InitCaps ==
    \E als \in CapsLists :
        InitWith([dedup_ttl |-> 5, episode_gap |-> 300, min_support |-> 1, max_lag |-> 90],
                 EmptyMap, als)

NextCaps ==
    \/ ApplyNoiseCut
    \/ BuildEpisodes
    \/ BuildSituations
    \/ ApplyTemporalSpread
    \/ RunCorrelationsScaled
    \/ SelectPrimaryCause
    \/ WriteOutput

SpecCaps == InitCaps /\ [][NextCaps]_vars

(* The whole pipeline on up to MaxCorrelationAlerts alerts of three         *)
(* fingerprints of one entity, each at any of three times 5 seconds apart,  *)
(* with a lag limit of 3 or 90.                                             *)
MaxCorrelationAlerts == 5

CorrelationSlots ==
    <<<<"fa", 0>>, <<"fa", 5000>>, <<"fa", 10000>>,
      <<"fb", 0>>, <<"fb", 5000>>, <<"fb", 10000>>,
      <<"fc", 0>>, <<"fc", 5000>>, <<"fc", 10000>>>>

\* the alerts of the slots of S, in the order of the slots
AlertsOfSlots(S) ==
    LET chosen == SelectSeq(CorrelationSlots, LAMBDA slot : slot \in S)
    IN  [k \in 1..Len(chosen) |->
            Alert(chosen[k][2], "datadog", chosen[k][1], "high", "svc:a", "firing", "", "")]

CorrelationLists ==
    {AlertsOfSlots(S) :
        S \in {T \in SUBSET Range(CorrelationSlots) :
                  T # {} /\ Cardinality(T) <= MaxCorrelationAlerts}}

InitCorrelations ==
    \E als \in CorrelationLists, lag \in {3, 90} :
        InitWith([dedup_ttl |-> 5, episode_gap |-> 300, min_support |-> 1, max_lag |-> lag],
                 EmptyMap, als)

SpecCorrelations == InitCorrelations /\ [][Next]_vars

(* _run_correlations on its own, applied to a situation whose bin matrix    *)
(* holds two series: every pair of series of length 2 and 4 with the counts *)
(* of KernelCounts, every pair of series of length 7 and 21 with a count of *)
(* 10 in up to MaxKernelActive of the first 7 bins, and the pair of the     *)
(* burst alignment example; min_support is 1 or 2.                          *)
MaxKernelActive == 4

KernelCounts == {0, 1, 5}

DenseSeries(n) == [1..n -> KernelCounts]

SparseSeries(n) ==
    {[i \in 1..n |-> IF i \in S THEN 10 ELSE 0] :
        S \in {T \in SUBSET (1..7) : Cardinality(T) <= MaxKernelActive}}

BurstExampleA == <<0, 0, 10, 0, 0, 10, 0>>
BurstExampleB == <<0, 0, 9, 0, 0, 11, 0>>

KernelPairs ==
    (DenseSeries(2) \X DenseSeries(2)) \cup (DenseSeries(4) \X DenseSeries(4))
    \cup (SparseSeries(7) \X SparseSeries(7)) \cup (SparseSeries(21) \X SparseSeries(21))
    \cup {<<BurstExampleA, BurstExampleB>>}

\* a situation that _apply_temporal_spread left with the bins a and b
KernelSituation(a, b) ==
    [SituationOf(<<>>, [start |-> 0, end |-> (Len(a) - 1) * 1000]) EXCEPT
        !.bins = <<[key |-> "fa", counts |-> a], [key |-> "fb", counts |-> b]>>,
        !.padded_window = <<[start |-> 0, end |-> (Len(a) - 1) * 1000]>>]

InitKernels ==
    \E pair \in KernelPairs, support \in {1, 2} :
        /\ args = [DefaultArgs EXCEPT !.min_support = support]
        /\ graph = EmptyMap
        /\ raw_alerts = <<>>
        /\ normalized = <<>>
        /\ alerts = <<>>
        /\ dedup_cache = EmptyMap
        /\ echo_tracker = EmptyMap
        /\ flap_tracker = EmptyMap
        /\ episodes = <<>>
        /\ raw_situations = <<KernelSituation(pair[1], pair[2])>>
        /\ situations = <<>>
        /\ correlations = <<>>
        /\ si = 1
        /\ output = <<>>
        /\ pc = "correlate"

SpecKernels == InitKernels /\ [][RunCorrelations]_vars

----------------------------------------------------------------------------
(* C1: after the noise cut started with empty trackers, no surviving alert  *)
(* has another surviving alert with the same (fingerprint, severity,        *)
(* entity_key) whose ts is earlier by less than dedup_ttl seconds; the      *)
(* alerts at 0, 60000 and 125000 ms with dedup_ttl = 120 leave exactly the  *)
(* alerts at 0 and 125000.                                                  *)

DedupKey(a) == <<a.fingerprint, a.severity, a.entity_key>>

DedupScenario ==
    <<Alert(0, "datadog", "fa", "high", "svc:a", "firing", "", ""),
      Alert(60000, "datadog", "fa", "high", "svc:a", "firing", "", ""),
      Alert(125000, "datadog", "fa", "high", "svc:a", "firing", "", "")>>

C1_DedupSpacing ==
    pc # "noise" =>
        /\ \A i, j \in 1..Len(alerts) :
              (i # j /\ DedupKey(alerts[i]) = DedupKey(alerts[j]))
                  => ~ (/\ alerts[j].ts <= alerts[i].ts
                        /\ alerts[i].ts - alerts[j].ts < args.dedup_ttl * 1000)
        /\ (normalized = DedupScenario /\ args.dedup_ttl = 120)
              => alerts = <<DedupScenario[1], DedupScenario[3]>>

C1_Witness ==
    /\ pc # "noise"
    /\ normalized = DedupScenario
    /\ args.dedup_ttl = 120
    /\ Len(alerts) = 2

----------------------------------------------------------------------------
(* C2: the episodes partition the filtered alert list: every filtered alert *)
(* is in exactly one episode, every episode is non-empty with count equal   *)
(* to the number of its alerts, all its alerts have the episode's           *)
(* (entity_key, fingerprint), and start <= end; the counts add up to        *)
(* run_meta.processed_alerts.                                               *)

\* the places (episode, position) at which the alert of index i is held
PlacesOf(i) ==
    {p \in UNION {{e} \X DOMAIN episodes[e].alerts : e \in 1..Len(episodes)} :
        episodes[p[1]].alerts[p[2]] = i}

EpisodeCountSum == Cardinality(UNION {{e} \X (1..episodes[e].count) : e \in 1..Len(episodes)})

C2_EpisodesPartition ==
    /\ pc \notin {"noise", "episodes"} =>
          /\ \A i \in 1..Len(alerts) : Cardinality(PlacesOf(i)) = 1
          /\ \A e \in 1..Len(episodes) :
                /\ episodes[e].alerts # <<>>
                /\ episodes[e].count = Len(episodes[e].alerts)
                /\ episodes[e].start <= episodes[e].end
                /\ \A k \in 1..Len(episodes[e].alerts) :
                      /\ episodes[e].alerts[k] \in 1..Len(alerts)
                      /\ alerts[episodes[e].alerts[k]].entity_key = episodes[e].entity_key
                      /\ alerts[episodes[e].alerts[k]].fingerprint = episodes[e].fingerprint
    /\ pc = "done" =>
          /\ output[1].type = "run_meta"
          /\ EpisodeCountSum = output[1].processed_alerts

C2_Witness ==
    /\ pc = "done"
    /\ Len(episodes) >= 2
    /\ \E e \in 1..Len(episodes) : episodes[e].count >= 2
    /\ output[1].processed_alerts = 3

----------------------------------------------------------------------------
(* C3: in a group of one (entity_key, fingerprint) sorted by ts, two        *)
(* consecutive alerts are in the same episode exactly when their gap is at  *)
(* most episode_gap seconds; no two consecutive alerts of an episode are    *)
(* further apart; the alerts at 0, 10, 20, 700 and 710 s with episode_gap = *)
(* 300 give the episodes {0, 10, 20} and {700, 710}.                        *)

\* i and j follow each other in the sorted group of their key
ConsecutiveInGroup(i, j) ==
    /\ GroupKey(alerts[i]) = GroupKey(alerts[j])
    /\ alerts[i].ts < alerts[j].ts
    /\ ~ \E k \in 1..Len(alerts) :
            /\ GroupKey(alerts[k]) = GroupKey(alerts[i])
            /\ alerts[i].ts < alerts[k].ts
            /\ alerts[k].ts < alerts[j].ts

SameEpisode(i, j) ==
    \E e \in 1..Len(episodes) :
        i \in Range(episodes[e].alerts) /\ j \in Range(episodes[e].alerts)

GapScenario ==
    [k \in 1..Len(EpisodeTs) |->
        Alert(EpisodeTs[k], "datadog", "fa", "high", "svc:a", "firing", "", "")]

EpisodeTimes(ep) == [k \in 1..Len(ep.alerts) |-> alerts[ep.alerts[k]].ts]

C3_GapRule ==
    pc \notin {"noise", "episodes"} =>
        /\ \A i, j \in 1..Len(alerts) :
              ConsecutiveInGroup(i, j) =>
                  (SameEpisode(i, j) <=>
                      alerts[j].ts - alerts[i].ts <= args.episode_gap * 1000)
        /\ \A e \in 1..Len(episodes) :
              \A k \in 1..(Len(episodes[e].alerts) - 1) :
                  EpisodeTimes(episodes[e])[k + 1] - EpisodeTimes(episodes[e])[k]
                      <= args.episode_gap * 1000
        /\ (normalized = GapScenario /\ args.episode_gap = 300) =>
              [e \in 1..Len(episodes) |-> EpisodeTimes(episodes[e])]
                  = <<<<0, 10000, 20000>>, <<700000, 710000>>>>

C3_Witness ==
    /\ pc \notin {"noise", "episodes"}
    /\ normalized = GapScenario
    /\ args.episode_gap = 300
    /\ Len(episodes) = 2

----------------------------------------------------------------------------
(* C4: the situations are the connected components of joinability: every    *)
(* episode is in exactly one situation, and two episodes are in the same    *)
(* situation exactly when a chain of joinable pairs links them.  A pair is  *)
(* joinable when the two intervals are at most the 5-minute halo apart and  *)
(* a bridge holds: same entity_key, same fingerprint, a common deploy key,  *)
(* a common net key, or a graph edge between the entities, in either        *)
(* direction.  Two episodes at the same time on svc:a and svc:b with the    *)
(* graph {svc:a: [svc:b]} form one situation.                               *)

\* the distance between the intervals of two episodes, 0 when they meet
IntervalDistance(e1, e2) == Max2(0, Max2(e2.start - e1.end, e1.start - e2.end))

Bridge(e1, e2) ==
    \/ e1.entity_key = e2.entity_key
    \/ e1.fingerprint = e2.fingerprint
    \/ \E d \in e1.deploy_keys : d \in e2.deploy_keys
    \/ \E n \in e1.net_keys : n \in e2.net_keys
    \/ (e1.entity_key \in DOMAIN graph /\ e2.entity_key \in graph[e1.entity_key])
    \/ (e2.entity_key \in DOMAIN graph /\ e1.entity_key \in graph[e2.entity_key])

Joinable(i, j) ==
    /\ IntervalDistance(episodes[i], episodes[j]) <= JOIN_HALO_MS
    /\ Bridge(episodes[i], episodes[j])

\* the episodes a chain of joinable pairs links to those of S
RECURSIVE Linked(_)
Linked(S) ==
    IF \E j \in 1..Len(episodes) : j \notin S /\ \E i \in S : Joinable(i, j)
    THEN Linked(S \cup {j \in 1..Len(episodes) : \E i \in S : Joinable(i, j)})
    ELSE S

\* the situations that hold the episode of index e
SituationsOfEpisode(e) ==
    {p \in UNION {{s} \X DOMAIN raw_situations[s].raw_episodes :
                     s \in 1..Len(raw_situations)} :
        raw_situations[p[1]].raw_episodes[p[2]] = episodes[e]}

SameSituation(i, j) ==
    \E p \in SituationsOfEpisode(i), q \in SituationsOfEpisode(j) : p[1] = q[1]

GraphScenario ==
    <<Alert(0, "datadog", "fa", "high", "svc:a", "firing", "", ""),
      Alert(0, "datadog", "fb", "high", "svc:b", "firing", "", "")>>

C4_Components ==
    pc \notin {"noise", "episodes", "situations"} =>
        /\ \A e \in 1..Len(episodes) : Cardinality(SituationsOfEpisode(e)) = 1
        /\ \A s \in 1..Len(raw_situations) :
              Range(raw_situations[s].raw_episodes) \subseteq Range(episodes)
        /\ \A i, j \in 1..Len(episodes) : SameSituation(i, j) <=> j \in Linked({i})
        /\ (normalized = GraphScenario /\ DOMAIN graph = {"svc:a"}) =>
              Len(raw_situations) = 1 /\ Len(raw_situations[1].raw_episodes) = 2

\* three episodes in one situation, two of which are not joinable
C4_Witness ==
    /\ pc \notin {"noise", "episodes", "situations"}
    /\ DOMAIN graph = {"svc:a"}
    /\ Len(episodes) = 3
    /\ Len(raw_situations) = 1
    /\ \E i, j \in 1..3 : i # j /\ ~ Joinable(i, j)
    /\ \E i, j \in 1..3 :
          /\ episodes[i].entity_key = "svc:a" /\ episodes[j].entity_key = "svc:b"
          /\ episodes[i].fingerprint # episodes[j].fingerprint
          /\ Joinable(i, j)

----------------------------------------------------------------------------
(* C5: for every situation, window.start is the minimum start and           *)
(* window.end the maximum end over its member episodes, in the created      *)
(* situation and in the emitted situation record.                           *)

WindowCovers(window, members) ==
    /\ \A k \in 1..Len(members) :
          window.start <= members[k].start /\ members[k].end <= window.end
    /\ \E k \in 1..Len(members) : window.start = members[k].start
    /\ \E k \in 1..Len(members) : window.end = members[k].end

C5_Window ==
    /\ \A s \in 1..Len(raw_situations) :
          /\ WindowCovers(raw_situations[s].window, raw_situations[s].raw_episodes)
          /\ WindowCovers(raw_situations[s].window, raw_situations[s].episodes)
    /\ \A k \in 1..Len(output) :
          output[k].type = "situation" => WindowCovers(output[k].window, output[k].episodes)

\* an emitted situation whose first episode ends before the window does
C5_Witness ==
    /\ pc = "done"
    /\ \E k \in 1..Len(output) :
          /\ output[k].type = "situation"
          /\ Len(output[k].episodes) >= 2
          /\ output[k].episodes[1].end < output[k].window.end

----------------------------------------------------------------------------
(* C6: temporal spreading succeeds (insufficient_temporal_spread stays      *)
(* false and a bin matrix is stored) exactly when the raw duration is at    *)
(* least 10000 ms and, for some padding of 60000, 120000, 240000 or 480000  *)
(* ms and some bin width of 1 or 5 s, the rehydrated alerts occupy at least *)
(* MIN_BINS distinct bins; every stored bin matrix has at least MIN_BINS    *)
(* distinct non-empty bin indices.                                          *)

SpreadPads == {PAD_MS_START, 2 * PAD_MS_START, 4 * PAD_MS_START, 8 * PAD_MS_START}

SpreadWidths == {BIN_SIZE_S_DEFAULT, BIN_SIZE_S_FALLBACK}

\* the bins of the given width that the alerts of the padded window occupy
OccupiedBins(sit, pad_ms, width_s) ==
    {TruncDiv(a.ts - (sit.window.start - pad_ms), width_s * 1000) :
        a \in Range(Rehydrated(RelevantAlerts(sit, alerts),
                               sit.window.start - pad_ms, sit.window.end + pad_ms))}

EnoughBins(sit) ==
    /\ sit.window.end - sit.window.start >= MIN_SITUATION_MS
    /\ \E pad_ms \in SpreadPads, width_s \in SpreadWidths :
          Cardinality(OccupiedBins(sit, pad_ms, width_s)) >= MIN_BINS

C6_SpreadNeedsBins ==
    \A s \in 1..Len(situations) :
        /\ ~ situations[s].insufficient_temporal_spread <=> situations[s].bins # <<>>
        /\ ~ situations[s].insufficient_temporal_spread <=> EnoughBins(situations[s])
        /\ situations[s].bins # <<>> => DistinctBinIndices(situations[s].bins) >= MIN_BINS

----------------------------------------------------------------------------
(* C7: every situation whose raw duration is below MIN_SITUATION_MS, or for *)
(* which the padding is exhausted without a bin matrix, is marked           *)
(* insufficient_temporal_spread with a non-empty reason, adds no            *)
(* correlation record, and is still emitted as a situation record with a    *)
(* primary_cause; a run over a single alert gives one episode, one          *)
(* situation marked insufficient, and no correlation.                       *)

C7_Marked ==
    /\ \A s \in 1..Len(situations) :
          (\/ situations[s].window.end - situations[s].window.start < MIN_SITUATION_MS
           \/ situations[s].bins = <<>>)
              => /\ situations[s].insufficient_temporal_spread
                 /\ situations[s].reason # ""
                 /\ situations[s].primary_cause # <<>>
    /\ pc = "done" =>
          /\ Len(output) = 1 + Len(raw_situations) + Len(correlations)
          /\ \A s \in 1..Len(raw_situations) :
                /\ output[1 + s].type = "situation"
                /\ output[1 + s].situation_id = raw_situations[s].situation_id
                /\ output[1 + s].insufficient_temporal_spread
                      = raw_situations[s].insufficient_temporal_spread
                /\ output[1 + s].primary_cause # <<>>
    /\ (pc = "done" /\ Len(normalized) = 1) =>
          /\ Len(episodes) = 1
          /\ Len(situations) = 1
          /\ situations[1].insufficient_temporal_spread
          /\ correlations = <<>>
          /\ output[1].correlations_found = 0

\* the step of run() from the spreader to the cause selector
C7_NoRecords ==
    (pc = "correlate" /\ raw_situations[si].insufficient_temporal_spread)
        => correlations' = correlations

C7_Insufficient == []C7_Marked /\ [][C7_NoRecords]_vars

\* a finished run with a situation that is too short and one for which the
\* padding was exhausted
C7_Witness ==
    /\ pc = "done"
    /\ \E s \in 1..Len(situations) :
          /\ situations[s].window.end - situations[s].window.start < MIN_SITUATION_MS
          /\ situations[s].insufficient_temporal_spread
    /\ \E s \in 1..Len(situations) :
          /\ situations[s].window.end - situations[s].window.start >= MIN_SITUATION_MS
          /\ situations[s].insufficient_temporal_spread
    /\ Len(output) = 3

----------------------------------------------------------------------------
(* C8: with a graph provided and no path in it from the entity of the       *)
(* primary cause to any other member entity of the situation, the reported  *)
(* confidence and score are at most 0.35, also when another member episode  *)
(* has the entity_key of the cause episode.                                 *)

PathToOtherEntity(sit) ==
    \E k \in 1..Len(sit.raw_episodes) :
        /\ sit.raw_episodes[k].entity_key # sit.primary_cause[1].entity
        /\ sit.raw_episodes[k].entity_key \in Visited(graph, {sit.primary_cause[1].entity})

C8_PathGate ==
    \A s \in 1..Len(situations) :
        (DOMAIN graph # {} /\ ~ PathToOtherEntity(situations[s]))
            => /\ situations[s].primary_cause[1].confidence <= PATH_GATE_CAP
               /\ situations[s].score[1] <= PATH_GATE_CAP

----------------------------------------------------------------------------
(* C9: every emitted correlation record has series_a < series_b in the      *)
(* lexicographic order of the fingerprints.                                 *)

C9_SeriesOrdered ==
    /\ \A k \in 1..Len(correlations) :
          StrLess(correlations[k].series_a, correlations[k].series_b)
    /\ \A k \in 1..Len(output) :
          output[k].type = "correlation" => StrLess(output[k].series_a, output[k].series_b)

----------------------------------------------------------------------------
(* C10: every correlation record has series_a different from series_b, and  *)
(* the records one situation adds hold each unordered pair of series at     *)
(* most once per method, also when the limits on series and pairs apply.    *)

SeriesDiffer(recs) == \A k \in 1..Len(recs) : recs[k].series_a # recs[k].series_b

PairsOnce(recs) ==
    \A k, l \in 1..Len(recs) :
        (k # l /\ recs[k].method = recs[l].method)
            => {recs[k].series_a, recs[k].series_b} # {recs[l].series_a, recs[l].series_b}

\* the step of run() that adds the records of the situation at si
C10_Step ==
    pc = "correlate" =>
        /\ Len(correlations') >= Len(correlations)
        /\ SubSeq(correlations', 1, Len(correlations)) = correlations
        /\ SeriesDiffer(SubSeq(correlations', Len(correlations) + 1, Len(correlations')))
        /\ PairsOnce(SubSeq(correlations', Len(correlations) + 1, Len(correlations')))

C10_Emitted ==
    /\ SeriesDiffer(correlations)
    /\ pc = "done" => SeriesDiffer(SelectSeq(output, LAMBDA r : r.type = "correlation"))

C10_DistinctPairs == []C10_Emitted /\ [][C10_Step]_vars

\* a finished run in which both limits applied and every method has a record
C10_Witness ==
    /\ pc = "done"
    /\ Cardinality(FingerprintsOf(alerts)) > ScaledMaxSeries
    /\ {correlations[k].method : k \in 1..Len(correlations)} = {"burst", "pmi", "leadlag"}
    /\ Cardinality({{correlations[k].series_a, correlations[k].series_b} :
                       k \in 1..Len(correlations)}) = ScaledMaxPairs

----------------------------------------------------------------------------
(* C11: the correlation records one situation adds are grouped by method:   *)
(* all burst records, then all PMI records, then all lead-lag records, each *)
(* group in the order in which the pairs are enumerated; no burst record    *)
(* follows a PMI or lead-lag record of the same situation.                  *)

MethodRank(method) ==
    CASE method = "burst" -> 1 [] method = "pmi" -> 2 [] OTHER -> 3

\* the position of the pair of the record r in the enumeration pairs
PairPosition(pairs, r) ==
    CHOOSE k \in 1..Len(pairs) : pairs[k] = <<r.series_a, r.series_b>>

GroupedByMethod(recs, pairs) ==
    \A k, l \in 1..Len(recs) :
        k < l =>
            \/ MethodRank(recs[k].method) < MethodRank(recs[l].method)
            \/ /\ recs[k].method = recs[l].method
               /\ PairPosition(pairs, recs[k]) < PairPosition(pairs, recs[l])

\* the records the step of run() at situation si adds
AddedRecords == SubSeq(correlations', Len(correlations) + 1, Len(correlations'))

C11_Step ==
    (pc = "correlate" /\ raw_situations[si].bins # <<>>) =>
        GroupedByMethod(AddedRecords,
                        CorrelationPairs(raw_situations[si].bins, MAX_SERIES, MAX_PAIRS))

C11_GroupedByMethod == [][C11_Step]_vars

----------------------------------------------------------------------------
(* C12: every written output stream is one run_meta record, then all        *)
(* situation records, then all correlation records;                         *)
(* run_meta.situations_created is the number of situation records and       *)
(* run_meta.correlations_found the number of correlation records.           *)

RecordsOfType(type) == {k \in 1..Len(output) : output[k].type = type}

C12_StreamShape ==
    /\ output # <<>> => pc = "done"
    /\ output # <<>> =>
          /\ RecordsOfType("run_meta") = {1}
          /\ \A k \in 2..Len(output) : output[k].type \in {"situation", "correlation"}
          /\ \A k \in RecordsOfType("situation"), l \in RecordsOfType("correlation") : k < l
          /\ output[1].situations_created = Cardinality(RecordsOfType("situation"))
          /\ output[1].correlations_found = Cardinality(RecordsOfType("correlation"))

\* a written stream with a situation record and two correlation records
C12_Witness ==
    /\ pc = "done"
    /\ Cardinality(RecordsOfType("situation")) = 1
    /\ Cardinality(RecordsOfType("correlation")) = 2
    /\ output[1].raw_alerts = 3

----------------------------------------------------------------------------
(* C13: a run on empty input (no raw record loaded, or no alert left after  *)
(* normalization) still emits a stream of exactly one run_meta record with  *)
(* zero counts and no situation or correlation record.                      *)

C13_EmptyRun ==
    (pc = "done" /\ (raw_alerts = <<>> \/ normalized = <<>>)) =>
        /\ Len(output) = 1
        /\ output[1].type = "run_meta"
        /\ output[1].processed_alerts = 0
        /\ output[1].episodes_created = 0
        /\ output[1].situations_created = 0
        /\ output[1].correlations_found = 0

----------------------------------------------------------------------------
(* C20: a raw record of the vendor shape that cannot yield a timestamp and  *)
(* carries no service, pod, host or cluster is skipped: it is not among the *)
(* normalized alerts, and the run continues with the remaining records.     *)

NoEntityField(tags) ==
    \A k \in {"service", "pod_name", "pod", "host", "kube_cluster_name", "cluster"} :
        Get(tags, k, "") = ""

Malformed(raw_alert) ==
    /\ raw_alert.shape = "datadog"
    /\ FirstTruthy(raw_alert.timestamp, raw_alert.first_seen,
                   raw_alert.created_at).kind \in {"none", "garbage"}
    /\ NoEntityField(raw_alert.tags)

\* the records that are to give an alert: those of the vendor shape that
\* are not malformed
Wellformed == SelectSeq(raw_alerts, LAMBDA r : r.shape = "datadog" /\ ~ Malformed(r))

C20_MalformedSkipped ==
    (pc # "load" /\ raw_alerts # <<>>) =>
        /\ \A k \in 1..Len(raw_alerts) :
              Malformed(raw_alerts[k]) =>
                  \A j \in 1..Len(normalized) :
                      normalized[j].resource_id # ResourceId(raw_alerts[k])
        /\ Len(normalized) = Len(Wellformed)
        /\ \A j \in 1..Len(normalized) :
              normalized[j].resource_id = ResourceId(Wellformed[j])

----------------------------------------------------------------------------
(* C14: two runs on the same normalized alert list, configuration and graph *)
(* give identical run_meta fields, identical situation records in identical *)
(* order and identical correlation records in identical order, whatever the *)
(* iteration order of the sets of series keys.  One possible run iterates   *)
(* every set of series keys in ascending order; every run is to give the    *)
(* records of that run.                                                     *)

\* the situation of that run after the spreader, for the decision d
AscendingSpread(sit, d) ==
    apply_temporal_spread(sit, d, KeysInOrder(FingerprintOrder, SpreadSeries(d)))

AscendingSituations ==
    [s \in 1..Len(build_situations(episodes, graph)) |->
        AscendingSpread(build_situations(episodes, graph)[s],
                        SpreadDecision(build_situations(episodes, graph)[s], alerts))]

RECURSIVE AscendingRecords(_, _)
AscendingRecords(sits, s) ==
    IF s > Len(sits) THEN <<>>
    ELSE run_correlations(sits[s], args.min_support, args.max_lag)
         \o AscendingRecords(sits, s + 1)

AscendingOutput(sits, recs) ==
    <<[RunMeta EXCEPT !.situations_created = Len(sits), !.correlations_found = Len(recs)]>>
    \o [s \in 1..Len(sits) |->
           OutputSituation(select_primary_cause(sits[s], graph, flap_tracker,
                                                echo_tracker, alerts))]
    \o recs

C14_SameOutput ==
    pc = "done" =>
        output = AscendingOutput(AscendingSituations,
                                 AscendingRecords(AscendingSituations, 1))

----------------------------------------------------------------------------
(* C15: the NoiseFilter is idempotent: _apply_noise_cut with empty trackers *)
(* on the output of _apply_noise_cut (itself run with empty trackers)       *)
(* returns that output unchanged, the same alerts in the same order, for    *)
(* every alert list and every dedup_ttl.                                    *)

EmptyTrackers ==
    [dedup_cache |-> EmptyMap, echo_tracker |-> EmptyMap,
     flap_tracker |-> EmptyMap, filtered |-> <<>>]

C15_Idempotent ==
    pc = "episodes" =>
        apply_noise_cut(EmptyTrackers, alerts, args.dedup_ttl).filtered = alerts

\* a first pass that dropped an echo 5 seconds after the first alert and
\* kept an alert of the echo's source 12 seconds after it
C15_Witness ==
    /\ pc = "episodes"
    /\ Len(normalized) = 3
    /\ Len(alerts) = 2
    /\ args.dedup_ttl = 5
    /\ \E k \in 1..3 : normalized[k].ts = 5000 /\ normalized[k].source # alerts[1].source
    /\ alerts[1].ts = 0
    /\ alerts[2].ts = 12000
    /\ alerts[2].source # alerts[1].source

----------------------------------------------------------------------------
(* C16: for two series of equal length >= 3 the burst kernel emits a record *)
(* exactly when aligned >= min_support and                                  *)
(* aligned / sqrt(|bursts_A| * |bursts_B|) >= 0.2, where a bin is bursting  *)
(* iff its count exceeds median + 3 * MAD of its series and aligned is the  *)
(* number of pairs (burst bin of A, burst bin of B) whose indices differ by *)
(* at most 1; the record reports that aligned and that score.  The series   *)
(* [0,0,10,0,0,10,0] and [0,0,9,0,0,11,0] with min_support 2 give aligned 2 *)
(* and score 1.0.                                                           *)

\* the two series of the situation the kernels are applied to
SeriesA == raw_situations[1].bins[1].counts
SeriesB == raw_situations[1].bins[2].counts

RecordsOfMethod(method) == SelectSeq(correlations, LAMBDA r : r.method = method)

\* the bins whose count exceeds median + 3 * MAD
BurstingBins(series) ==
    {i \in 1..Len(series) : 4 * series[i] > ThresholdOf(series, Median2(series))}

AlignedPairs(A, B) == Cardinality({p \in A \X B : Abs(p[1] - p[2]) <= 1})

\* a record of the burst kernel with the given aligned count and the score
\* aligned / sqrt(product)
IsBurstRecord(r, aligned, product) ==
    /\ r.metrics.burst.aligned = aligned
    /\ r.metrics.burst.score[1] * r.metrics.burst.score[1] * product
          = aligned * aligned * r.metrics.burst.score[2]

BurstRule(A, B, aligned, emitted) ==
    /\ Len(emitted) <= 1
    /\ emitted # <<>> <=>
          /\ Len(SeriesA) >= 3
          /\ A # {} /\ B # {}
          /\ aligned >= args.min_support
          /\ 25 * aligned * aligned >= Cardinality(A) * Cardinality(B)
    /\ emitted # <<>> => IsBurstRecord(emitted[1], aligned, Cardinality(A) * Cardinality(B))

C16_BurstRule ==
    pc = "cause" =>
        /\ BurstRule(BurstingBins(SeriesA), BurstingBins(SeriesB),
                     AlignedPairs(BurstingBins(SeriesA), BurstingBins(SeriesB)),
                     RecordsOfMethod("burst"))
        /\ (SeriesA = BurstExampleA /\ SeriesB = BurstExampleB /\ args.min_support = 2) =>
              /\ RecordsOfMethod("burst") # <<>>
              /\ IsBurstRecord(RecordsOfMethod("burst")[1], 2, 4)

----------------------------------------------------------------------------
(* C17: for two series of equal length n >= 3 with n_a, n_b active bins and *)
(* n_ab bins active in both, the PMI kernel emits a record exactly when     *)
(* n_ab >= min_support and (n_ab+1) * (n+4) >= 2 * (n_a+1) * (n_b+1), and   *)
(* the record reports co_count = n_ab; with n_ab = 0 and min_support >= 1   *)
(* nothing is emitted.                                                      *)

PmiRule(n, n_a, n_b, n_ab, emitted) ==
    /\ Len(emitted) <= 1
    /\ emitted # <<>> <=>
          /\ n >= 3
          /\ n_ab >= args.min_support
          /\ (n_ab + 1) * (n + 4) >= 2 * (n_a + 1) * (n_b + 1)
    /\ emitted # <<>> => emitted[1].metrics.pmi.co_count = n_ab
    /\ (n_ab = 0 /\ args.min_support >= 1) => emitted = <<>>

C17_PmiRule ==
    pc = "cause" =>
        PmiRule(Len(SeriesA),
                Cardinality({i \in 1..Len(SeriesA) : SeriesA[i] > 0}),
                Cardinality({i \in 1..Len(SeriesB) : SeriesB[i] > 0}),
                Cardinality({i \in 1..Len(SeriesA) : SeriesA[i] > 0 /\ SeriesB[i] > 0}),
                RecordsOfMethod("pmi"))

----------------------------------------------------------------------------
(* C18: every lead-lag record comes from a pair in which both series have   *)
(* at least two active bins and the best normalized cross-correlation over  *)
(* the lags 0..max_lag bins is at least 0.3, and its lag_ms is the best lag *)
(* times the bin width in milliseconds (bin_size_s * 1000) of the stored    *)
(* bin matrix of the situation.                                             *)

\* the normalized cross-correlation of a and b at one lag, as the fraction
\* <<x, y>> = x / sqrt(y); y = 0 when one of the overlapping parts is silent
CrossCorrelation(a, b, lag) ==
    <<Cardinality({i \in 1..(Len(a) - lag) : a[i] > 0 /\ b[i + lag] > 0}),
      Cardinality({i \in 1..(Len(a) - lag) : a[i] > 0})
         * Cardinality({i \in (lag + 1)..Len(b) : b[i] > 0})>>

CrossCorrelations(a, b, lags) == [lag \in lags |-> CrossCorrelation(a, b, lag)]

\* lag has the best cross-correlation xc[lag], which is at least 0.3, and no
\* smaller lag has the same one
IsBestLag(xc, lag) ==
    /\ xc[lag][2] > 0
    /\ 100 * xc[lag][1] * xc[lag][1] >= 9 * xc[lag][2]
    /\ \A o \in DOMAIN xc :
          xc[o][2] > 0 =>
             /\ xc[o][1] * xc[o][1] * xc[lag][2] <= xc[lag][1] * xc[lag][1] * xc[o][2]
             /\ o < lag => xc[o][1] * xc[o][1] * xc[lag][2] < xc[lag][1] * xc[lag][1] * xc[o][2]

LeadLagJustified(leadlag, xc, bin_size_s) ==
    \E lag \in DOMAIN xc :
        /\ IsBestLag(xc, lag)
        /\ leadlag.lag_ms = lag * bin_size_s * 1000
        /\ leadlag.score[1] * leadlag.score[1] * xc[lag][2]
              = xc[lag][1] * xc[lag][1] * leadlag.score[2]

TwoActiveBins(series) == Cardinality({i \in 1..Len(series) : series[i] > 0}) >= 2

LeadLagRule(r, sit, a, b) ==
    /\ TwoActiveBins(a)
    /\ TwoActiveBins(b)
    /\ LeadLagJustified(r.metrics.leadlag,
                        CrossCorrelations(a, b, 0..Min2(args.max_lag, Len(a) - 1)),
                        sit.bin_size_s)

C18_Step ==
    pc = "correlate" =>
        \A k \in 1..Len(AddedRecords) :
            AddedRecords[k].method = "leadlag" =>
                LeadLagRule(AddedRecords[k], raw_situations[si],
                            BinsOf(raw_situations[si].bins, AddedRecords[k].series_a),
                            BinsOf(raw_situations[si].bins, AddedRecords[k].series_b))

C18_LeadLagRule == [][C18_Step]_vars

\* a lead-lag record with a lag of five bins has been added
C18_Witness ==
    \E k \in 1..Len(correlations) :
        /\ correlations[k].method = "leadlag"
        /\ correlations[k].metrics.leadlag.lag_ms = 5000

----------------------------------------------------------------------------
(* C19: the situations handed to the emitter are sorted by window.start     *)
(* ascending, ties broken by the lexicographically smallest entity_key      *)
(* contained in each situation.                                             *)

\* the entity keys in lexicographic order
EntityOrder == <<"entity:na", "svc:a", "svc:b">>

EntityRank(entity_key) == CHOOSE k \in 1..Len(EntityOrder) : EntityOrder[k] = entity_key

SmallestEntity(sit) ==
    SetMin({EntityRank(sit.episodes[k].entity_key) : k \in 1..Len(sit.episodes)})

InSituationOrder(s1, s2) ==
    \/ s1.window.start < s2.window.start
    \/ /\ s1.window.start = s2.window.start
       /\ SmallestEntity(s1) <= SmallestEntity(s2)

C19_SituationsSorted ==
    pc \in {"write", "done"} =>
        \A k, l \in 1..Len(situations) :
            k < l => InSituationOrder(situations[k], situations[l])

----------------------------------------------------------------------------
(* C21: once the NoiseFilter has returned, no later stage (episodes,        *)
(* situations, spreading, correlation, cause selection with its flap and    *)
(* echo scoring, emission) changes the dedup cache, the echo tracker or the *)
(* flap tracker.                                                            *)

C21_Step ==
    pc \notin {"load", "noise"} =>
        /\ dedup_cache' = dedup_cache
        /\ echo_tracker' = echo_tracker
        /\ flap_tracker' = flap_tracker

C21_TrackersFrozen == [][C21_Step]_vars

\* a run has ended whose cause selection read a flap entry and an echo entry
C21_Witness ==
    /\ pc = "done"
    /\ \E k \in 1..Len(situations) :
          /\ situations[k].primary_cause # <<>>
          /\ <<situations[k].primary_cause[1].fingerprint,
               situations[k].primary_cause[1].entity>> \in DOMAIN flap_tracker
          /\ Len(echo_tracker[<<situations[k].primary_cause[1].fingerprint,
                                situations[k].primary_cause[1].entity>>]) >= 1

----------------------------------------------------------------------------
(* C22: no stage begins before its predecessor has produced its output for  *)
(* the whole batch: the CorrelationEngine starts on no situation before the *)
(* TemporalSpreader has finished every situation, and the CauseSelector     *)
(* does not start before the correlations of every situation are computed.  *)

\* _apply_temporal_spread has returned for sit: it stored a bin matrix or
\* marked the situation
SpreadDone(sit) == sit.insufficient_temporal_spread \/ sit.bins # <<>>

C22_StagesInBatches ==
    /\ pc = "correlate" =>
          \A k \in 1..Len(raw_situations) : SpreadDone(raw_situations[k])
    /\ pc = "cause" => si = Len(raw_situations)

----------------------------------------------------------------------------
(* C23: the graph_path component of the primary cause is                    *)
(* 1 / (1 + path_length), where path_length is the length of the            *)
(* breadth-first path in the graph from the cause entity to another entity  *)
(* of the situation, and 0 when there is no such path or no graph; causes   *)
(* reached over paths of different length get different values.             *)

\* the number of edges of the shortest path from the entities seen to
\* target, -1 when there is none
RECURSIVE PathLength(_, _, _, _)
PathLength(g, seen, target, d) ==
    IF target \in seen THEN d
    ELSE IF seen \cup UNION {Get(g, e, {}) : e \in seen} = seen THEN -1
    ELSE PathLength(g, seen \cup UNION {Get(g, e, {}) : e \in seen}, target, d + 1)

\* the lengths of the paths from the cause entity to the other entities
PathLengths(g, cause, entities) ==
    {PathLength(g, {cause}, e, 0) : e \in entities \ {cause}} \ {-1}

GraphPathRule(graph_path, lengths) ==
    IF lengths = {} THEN graph_path = 0
    ELSE \E n \in lengths : graph_path = SCORE_ONE \div (1 + n)

\* the score components _select_primary_cause computes for sit
ComponentsOf(sit, cause) ==
    calculate_score_components(cause, sit,
                               check_dependency_path(graph, cause, sit.raw_episodes),
                               graph, flap_tracker, echo_tracker, alerts)

C23_GraphPath ==
    pc = "cause" =>
        GraphPathRule(ComponentsOf(raw_situations[si],
                                   EarliestEpisode(raw_situations[si].raw_episodes)).graph_path,
                      PathLengths(graph,
                                  EarliestEpisode(raw_situations[si].raw_episodes).entity_key,
                                  {raw_situations[si].raw_episodes[k].entity_key :
                                      k \in 1..Len(raw_situations[si].raw_episodes)}))

----------------------------------------------------------------------------
(* C24: the echo component of the primary cause is 0.3 exactly when the     *)
(* echo tracker retained more than one distinct source for the              *)
(* (fingerprint, entity_key) of the cause episode, and 0 otherwise.         *)

\* the sources of the entries the echo tracker retained for key
RetainedSources(key) ==
    {Get(echo_tracker, key, <<>>)[k][2] : k \in 1..Len(Get(echo_tracker, key, <<>>))}

EchoRule(echo, sources) ==
    echo = IF Cardinality(sources) > 1 THEN (3 * SCORE_ONE) \div 10 ELSE 0

C24_EchoScore ==
    pc = "cause" =>
        EchoRule(ComponentsOf(raw_situations[si],
                              EarliestEpisode(raw_situations[si].raw_episodes)).echo,
                 RetainedSources(<<EarliestEpisode(raw_situations[si].raw_episodes).fingerprint,
                                   EarliestEpisode(raw_situations[si].raw_episodes).entity_key>>))

----------------------------------------------------------------------------
(* C25: every alert the NoiseFilter drops is justified by an alert that     *)
(* survives in its output: a survivor with the same (fingerprint, severity, *)
(* entity_key) less than dedup_ttl seconds earlier, or a survivor with the  *)
(* same (fingerprint, entity_key) and a different source at most 10 seconds *)
(* earlier; an alert suppressed as an echo never makes a later one drop.    *)

JustifiedBy(x, y, dedup_ttl) ==
    /\ y.ts <= x.ts
    /\ y.fingerprint = x.fingerprint
    /\ y.entity_key = x.entity_key
    /\ \/ y.severity = x.severity /\ x.ts - y.ts < dedup_ttl * 1000
       \/ y.source # x.source /\ x.ts - y.ts <= ECHO_WINDOW_MS

----------------------------------------------------------------------------
(* C26: situation ids are unique within a run: no two distinct situations   *)
(* built from one episode list get the same situation_id, so the            *)
(* situation_id of a correlation record names exactly one situation record. *)

C26_UniqueIds ==
    \A k, l \in 1..Len(raw_situations) :
        k # l => raw_situations[k].situation_id # raw_situations[l].situation_id

----------------------------------------------------------------------------
(* C27: every emitted situation record has bin_size_s = 1: the 5-second     *)
(* fallback bin width is never the one stored, and a situation that could   *)
(* not be spread keeps the default of 1.                                    *)

C27_BinSizeOne ==
    \A k \in 1..Len(output) :
        output[k].type = "situation" => output[k].bin_size_s = BIN_SIZE_S_DEFAULT

\* a situation of at least 10 seconds for which both bin widths were tried
\* and failed has been emitted
C27_Witness ==
    \E k \in 1..Len(output) :
        /\ output[k].type = "situation"
        /\ output[k].window.end - output[k].window.start >= MIN_SITUATION_MS
        /\ output[k].insufficient_temporal_spread
        /\ output[k].reason = REASON_BINS
        /\ output[k].bin_size_s = 1

----------------------------------------------------------------------------
(* C30: for every correlation record, series_a and series_b are             *)
(* fingerprints of member episodes of the situation named by situation_id,  *)
(* so resource_ids_a and resource_ids_b are both non-empty; rehydration     *)
(* over the padded window introduces no series of a fingerprint that        *)
(* belongs to no member episode.                                            *)

MemberFingerprints(sit) == {sit.raw_episodes[k].fingerprint : k \in 1..Len(sit.raw_episodes)}

SeriesOfMembers(r, sit) ==
    /\ r.series_a \in MemberFingerprints(sit)
    /\ r.series_b \in MemberFingerprints(sit)
    /\ r.resource_ids_a # {}
    /\ r.resource_ids_b # {}

C30_Step ==
    pc = "correlate" =>
        /\ \A k \in 1..Len(raw_situations[si].bins) :
              raw_situations[si].bins[k].key \in MemberFingerprints(raw_situations[si])
        /\ \A k \in 1..Len(AddedRecords) :
              SeriesOfMembers(AddedRecords[k], raw_situations[si])

C30_SeriesOfMembers == [][C30_Step]_vars

----------------------------------------------------------------------------
(* C28: the burst kernel is symmetric in its two series: for equal-length   *)
(* count vectors a and b and every min_support, _burst_correlation(a, b)    *)
(* and _burst_correlation(b, a) both emit nothing or both emit the same     *)
(* aligned count and the same score, and the score never exceeds 1.         *)

SameBurst(ab, ba) ==
    /\ ab = <<>> <=> ba = <<>>
    /\ ab # <<>> =>
          /\ ab[1].aligned = ba[1].aligned
          /\ ab[1].score[1] * ab[1].score[1] * ba[1].score[2]
                = ba[1].score[1] * ba[1].score[1] * ab[1].score[2]

AtMostOne(burst) == burst # <<>> => burst[1].score[1] * burst[1].score[1] <= burst[1].score[2]

\* the burst record of the state is _burst_correlation(SeriesA, SeriesB)
BurstSymmetric(ab, ba) ==
    /\ SameBurst(ab, ba)
    /\ AtMostOne(ab)
    /\ AtMostOne(ba)

C28_BurstSymmetric ==
    pc = "cause" =>
        BurstSymmetric([k \in 1..Len(RecordsOfMethod("burst")) |->
                           RecordsOfMethod("burst")[k].metrics.burst],
                       burst_correlation(SeriesB, SeriesA, args.min_support))

----------------------------------------------------------------------------
(* C29: after any sequence of alerts processed by the NoiseFilter, all      *)
(* entries the echo tracker retains for one (fingerprint, entity_key) carry *)
(* the same source and lie within 10 seconds of the most recently accepted  *)
(* alert of that key.                                                       *)

\* the timestamps of the accepted alerts of key
AcceptedTs(key) ==
    {alerts[k].ts : k \in {x \in 1..Len(alerts) :
                             <<alerts[x].fingerprint, alerts[x].entity_key>> = key}}

EntriesConsistent(entries, accepted) ==
    /\ \A i, j \in 1..Len(entries) : entries[i][2] = entries[j][2]
    /\ entries # <<>> => accepted # {}
    /\ \A i \in 1..Len(entries) :
          /\ entries[i][1] <= SetMax(accepted)
          /\ SetMax(accepted) - entries[i][1] <= ECHO_WINDOW_MS

C29_EchoEntries ==
    pc = "episodes" =>
        \A key \in DOMAIN echo_tracker :
            EntriesConsistent(echo_tracker[key], AcceptedTs(key))

\* two alerts of different sources were accepted and the entry of the older
\* one was removed from the tracker
C29_Witness ==
    /\ pc = "episodes"
    /\ Len(alerts) = 2
    /\ alerts[1].source # alerts[2].source
    /\ Len(echo_tracker[<<"fa", "svc:a">>]) = 1
    /\ echo_tracker[<<"fa", "svc:a">>][1] = <<alerts[2].ts, alerts[2].source>>

=============================================================================
